---- MODULE Spec2Model ----
(***************************************************************************)
(* Model of the categorization and aggregation core of bank_analyzer:      *)
(* RuleEngine (categorizer/rule_engine.py), ManualOverrides                *)
(* (categorizer/overrides.py), Aggregator (aggregator/aggregator.py) and   *)
(* the analyze pipeline of cli/main.py.                                    *)
(*                                                                         *)
(* Text values (counterparty, description, patterns) are sequences of      *)
(* one-character strings, so that lower-casing, substring tests and the    *)
(* cache key are computed rather than assumed.  Python dicts whose         *)
(* iteration order the code relies on are sequences of <<key, value>>      *)
(* pairs in insertion order.  Amounts are exact decimals, held as integer  *)
(* numbers of grosze.                                                      *)
(***************************************************************************)
EXTENDS Integers, Sequences, FiniteSets, TLC

VARIABLES
    rules_file,                 \* parsed content of the rules YAML file
    rules,                      \* RuleEngine.rules
    exclude_rules,              \* RuleEngine.exclude_rules
    compiled_patterns,          \* RuleEngine.compiled_patterns   (idx -> pattern)
    compiled_exclude_patterns,  \* RuleEngine.compiled_exclude_patterns
    stats,                      \* RuleEngine.stats               (name -> count)
    exclude_stats,              \* RuleEngine.exclude_stats
    cache,                      \* RuleEngine._cache              (key -> pair)
    hist,                       \* calls made so far, with their results
    overrides_file,             \* durable override collection (list of entries)
    overrides,                  \* ManualOverrides.overrides      (id -> pair)
    stores,                     \* ManualOverrides instances sharing the file
    parsed,                     \* analyze: what detect_and_parse returned
    all_transactions,           \* analyze: all_transactions / aggregate: its input
    filtered_transactions,      \* analyze: transactions that passed the filter
    report,                     \* result of Aggregator.aggregate
    pc                          \* position in analyze / aggregate

vars == <<rules_file, rules, exclude_rules, compiled_patterns,
          compiled_exclude_patterns, stats, exclude_stats, cache, hist,
          overrides_file, overrides, stores, parsed, all_transactions,
          filtered_transactions, report, pc>>

engine_vars == <<rules, exclude_rules, compiled_patterns,
                 compiled_exclude_patterns, stats, exclude_stats, cache>>

(***************************************************************************)
(* Bounds of the model.                                                    *)
(***************************************************************************)
MaxRules == 2       \* rules in a loaded rules file
MaxCalls == 3       \* calls made on one engine
MaxTxns == 3        \* transactions given to aggregate

None == "<None>"    \* Python None

(***************************************************************************)
(* Text                                                                    *)
(***************************************************************************)
LowerChar(c) ==
    CASE c = "A" -> "a"
      [] c = "B" -> "b"
      [] c = "C" -> "c"
      [] c = "N" -> "n"
      [] c = "X" -> "x"
      [] OTHER   -> c

\* str.lower()
Lower(s) == [i \in 1..Len(s) |-> LowerChar(s[i])]

\* pattern in value
Contains(p, v) ==
    \E i \in 0..(Len(v) - Len(p)) : SubSeq(v, i + 1, i + Len(p)) = p

\* value.startswith(pattern)
StartsWith(v, p) == Len(p) <= Len(v) /\ SubSeq(v, 1, Len(p)) = p

\* value.endswith(pattern)
EndsWith(v, p) ==
    Len(p) <= Len(v) /\ SubSeq(v, Len(v) - Len(p) + 1, Len(v)) = p

(***************************************************************************)
(* Regular expressions: the fragment with literals and alternation "|".    *)
(* A pattern holding an unbalanced "(" does not compile (re.error).        *)
(***************************************************************************)
RegexValid(pattern) == \A i \in 1..Len(pattern) : pattern[i] # "("

\* re.compile(pattern, flags), for a pattern that compiles
re_compile(pattern, ignorecase) ==
    [pattern |-> pattern, ignorecase |-> ignorecase]

RECURSIVE Alternatives(_)
Alternatives(pattern) ==
    IF \E i \in 1..Len(pattern) : pattern[i] = "|"
    THEN LET i == CHOOSE j \in 1..Len(pattern) :
                     /\ pattern[j] = "|"
                     /\ \A k \in 1..(j - 1) : pattern[k] # "|"
         IN  {SubSeq(pattern, 1, i - 1)}
                 \cup Alternatives(SubSeq(pattern, i + 1, Len(pattern)))
    ELSE {pattern}

\* bool(compiled.search(value))
re_search(compiled, value) ==
    \E alt \in Alternatives(compiled.pattern) :
        IF compiled.ignorecase
        THEN Contains(Lower(alt), Lower(value))
        ELSE Contains(alt, value)

(***************************************************************************)
(* Rules are dicts: a key may be absent, and rule.get(key, default) reads  *)
(* it.                                                                     *)
(***************************************************************************)
Get(d, k, default) == IF k \in DOMAIN d THEN d[k] ELSE default

\* dict.get on a dict held as a function
DictGet(d, k) == IF k \in DOMAIN d THEN d[k] ELSE None

DictPut(d, k, v) == [x \in DOMAIN d \cup {k} |-> IF x = k THEN v ELSE d[x]]

EmptyDict == [x \in {} |-> None]

Priority(rule) == Get(rule, "priority", 0)

\* list.sort(key=priority, reverse=True): stable, equal priorities keep order
RECURSIVE sort_rules(_)
sort_rules(rs) ==
    IF Len(rs) <= 1 THEN rs
    ELSE LET sorted == sort_rules(SubSeq(rs, 1, Len(rs) - 1))
             last   == rs[Len(rs)]
             n      == Cardinality({i \in 1..Len(sorted) :
                                       Priority(sorted[i]) >= Priority(last)})
         IN  SubSeq(sorted, 1, n) \o <<last>> \o SubSeq(sorted, n + 1, Len(sorted))

\* rule['pattern'] in a pre-compilation loop: position of the first regex
\* rule that has no 'pattern' (KeyError), Len(rs) + 1 when there is none
first_key_error(rs) ==
    LET missing == {i \in 1..Len(rs) :
                      /\ Get(rs[i], "match_type", None) = "regex"
                      /\ "pattern" \notin DOMAIN rs[i]}
    IN  IF missing = {} THEN Len(rs) + 1
        ELSE CHOOSE i \in missing : \A j \in missing : i <= j

\* a pre-compilation loop of _load_rules, keyed by position (0-based): the
\* patterns compiled before the loop ends or raises; a pattern that does not
\* compile (re.error) is skipped
compile_all(rs) ==
    LET ok == {i \in 1..(first_key_error(rs) - 1) :
                 /\ Get(rs[i], "match_type", None) = "regex"
                 /\ RegexValid(rs[i].pattern)}
    IN  [idx \in {i - 1 : i \in ok} |->
            re_compile(rs[idx + 1].pattern,
                       ~Get(rs[idx + 1], "case_sensitive", FALSE))]

(***************************************************************************)
(* RuleEngine                                                              *)
(***************************************************************************)
DefaultPair == <<"Inne wydatki", "Nieprzypisane">>

FieldValue(rule, transaction, default_field) ==
    LET field_name == Get(rule, "field", default_field)
    IN  CASE field_name = "counterparty" -> transaction.counterparty
          [] field_name = "description"  -> transaction.description
          [] OTHER                       -> <<>>

\* The body shared by _match_rule and _match_exclude_rule: the rule against
\* the transaction, with `patterns` the compiled patterns looked up by rule_idx.
match_with(rule, transaction, rule_idx, patterns, default_field) ==
    LET match_type     == Get(rule, "match_type", "contains")
        case_sensitive == Get(rule, "case_sensitive", FALSE)
        raw_value      == FieldValue(rule, transaction, default_field)
        raw_pattern    == Get(rule, "pattern", <<>>)
        field_value    == IF case_sensitive THEN raw_value ELSE Lower(raw_value)
        pattern        == IF ~case_sensitive /\ match_type # "regex"
                          THEN Lower(raw_pattern) ELSE raw_pattern
    IN  CASE match_type = "contains"   -> Contains(pattern, field_value)
          [] match_type = "exact"      -> pattern = field_value
          [] match_type = "startswith" -> StartsWith(field_value, pattern)
          [] match_type = "endswith"   -> EndsWith(field_value, pattern)
          [] match_type = "regex"      ->
                 IF rule_idx \in DOMAIN patterns
                 THEN re_search(patterns[rule_idx], field_value)
                 ELSE FALSE
          [] OTHER                     -> FALSE

\* RuleEngine._match_rule
match_rule(rule, transaction, rule_idx) ==
    match_with(rule, transaction, rule_idx, compiled_patterns, "counterparty")

\* RuleEngine._match_exclude_rule
match_exclude_rule(rule, transaction, rule_idx) ==
    match_with(rule, transaction, rule_idx, compiled_exclude_patterns,
               "description")

\* cache_key with the lower-casing forgotten
cache_key_exact(transaction) ==
    transaction.counterparty \o <<"|">> \o transaction.description

\* cache_key = f"{counterparty.lower()}|{description.lower()}"
cache_key(transaction) ==
    Lower(transaction.counterparty) \o <<"|">> \o Lower(transaction.description)

\* rule.get('name', f"rule_{idx}")
rule_name(rule, idx) == Get(rule, "name", "rule_" \o ToString(idx))

\* the loop of categorize: position (1-based) of the first rule that matches,
\* 0 when none does
first_match(transaction) ==
    LET hits == {i \in 1..Len(rules) : match_rule(rules[i], transaction, i - 1)}
    IN  IF hits = {} THEN 0
        ELSE CHOOSE i \in hits : \A j \in hits : i <= j

Call(op, txn, rule, result, by) ==
    [op |-> op, txn |-> txn, rule |-> rule, result |-> result, by |-> by]

\* RuleEngine.categorize(transaction) on an engine whose cache is c and whose
\* usage counters are s: which branch answers, the result, the new counters
\* and the new cache
categorize_by(c, transaction) ==
    IF cache_key(transaction) \in DOMAIN c THEN "cache"
    ELSE IF first_match(transaction) # 0 THEN "rule" ELSE "default"

categorize_result(c, transaction) ==
    LET i == first_match(transaction)
    IN  IF cache_key(transaction) \in DOMAIN c
        THEN c[cache_key(transaction)]
        ELSE IF i # 0
             THEN <<rules[i].category_main, rules[i].category_sub>>
             ELSE DefaultPair

categorize_stats(c, s, transaction) ==
    LET i == first_match(transaction)
    IN  IF cache_key(transaction) \in DOMAIN c \/ i = 0 THEN s
        ELSE LET name == rule_name(rules[i], i - 1)
             IN  DictPut(s, name, Get(s, name, 0) + 1)

categorize_cache(c, transaction) ==
    LET i == first_match(transaction)
    IN  IF cache_key(transaction) \in DOMAIN c \/ i = 0 THEN c
        ELSE DictPut(c, cache_key(transaction),
                     <<rules[i].category_main, rules[i].category_sub>>)

other_vars == <<overrides_file, overrides, stores, parsed, all_transactions,
                filtered_transactions, report, pc>>

categorize(transaction) ==
    /\ Len(hist) < MaxCalls
    /\ stats' = categorize_stats(cache, stats, transaction)
    /\ cache' = categorize_cache(cache, transaction)
    /\ hist' = Append(hist, Call("categorize", transaction, None,
                                 categorize_result(cache, transaction),
                                 categorize_by(cache, transaction)))
    /\ UNCHANGED <<rules_file, rules, exclude_rules, compiled_patterns,
                   compiled_exclude_patterns, exclude_stats>>
    /\ UNCHANGED other_vars

\* RuleEngine.clear_cache
clear_cache ==
    /\ Len(hist) < MaxCalls
    /\ cache' = EmptyDict
    /\ hist' = Append(hist, Call("clear_cache", None, None, None, None))
    /\ UNCHANGED <<rules_file, rules, exclude_rules, compiled_patterns,
                   compiled_exclude_patterns, stats, exclude_stats>>
    /\ UNCHANGED other_vars

\* add_rule: compiled_patterns after "Compile regex if needed"
add_rule_patterns(rule, new_rules) ==
    IF rule.match_type = "regex" /\ RegexValid(rule.pattern)
    THEN DictPut(compiled_patterns, Len(new_rules) - 1,
                 re_compile(rule.pattern, ~rule.case_sensitive))
    ELSE compiled_patterns

\* RuleEngine.add_rule(name, pattern, category_main, category_sub, field,
\*                     match_type, priority, case_sensitive)
add_rule(rule) ==
    /\ Len(hist) < MaxCalls
    /\ rules' = sort_rules(Append(rules, rule))
    /\ compiled_patterns' = add_rule_patterns(rule, sort_rules(Append(rules, rule)))
    /\ cache' = EmptyDict
    /\ hist' = Append(hist, Call("add_rule", None, rule, None, None))
    /\ UNCHANGED <<rules_file, exclude_rules, compiled_exclude_patterns,
                   stats, exclude_stats>>
    /\ UNCHANGED other_vars

(***************************************************************************)
(* Rule files, added rules and transactions the engine is exercised on.    *)
(***************************************************************************)
RuleBiedronka ==
    [name |-> "biedronka", pattern |-> <<"a">>, field |-> "counterparty",
     match_type |-> "contains", priority |-> 10,
     category_main |-> "Jedzenie", category_sub |-> "Zakupy spozywcze"]

RuleNetflix ==
    [name |-> "netflix", pattern |-> <<"n">>, field |-> "description",
     match_type |-> "contains", priority |-> 15,
     category_main |-> "Subskrypcje", category_sub |-> "Streaming"]

RuleZabka ==
    [name |-> "zabka_regex", pattern |-> <<"b", "|", "c">>,
     field |-> "counterparty", match_type |-> "regex", priority |-> 10,
     category_main |-> "Jedzenie", category_sub |-> "Zabka"]

RuleExactCS ==
    [name |-> "exact_cs", pattern |-> <<"A">>, field |-> "counterparty",
     match_type |-> "exact", case_sensitive |-> TRUE, priority |-> 15,
     category_main |-> "Transport", category_sub |-> "Paliwo"]

\* a rule that leaves name, field, priority and case_sensitive to their defaults
RuleUnnamed ==
    [pattern |-> <<"a">>, match_type |-> "startswith",
     category_main |-> "Dom", category_sub |-> "Czynsz"]

RulePool == {RuleBiedronka, RuleNetflix, RuleZabka, RuleExactCS, RuleUnnamed}

\* add_rule always builds all eight fields
RuleAddTest ==
    [name |-> "test_rule", pattern |-> <<"b">>, category_main |-> "Test",
     category_sub |-> "TestSub", field |-> "counterparty",
     match_type |-> "contains", priority |-> 10, case_sensitive |-> FALSE]

RuleAddRegex ==
    [name |-> "added_regex", pattern |-> <<"a">>, category_main |-> "Rozrywka",
     category_sub |-> "Kino", field |-> "counterparty",
     match_type |-> "regex", priority |-> 20, case_sensitive |-> FALSE]

AddPool == {RuleAddTest, RuleAddRegex}

Txn(counterparty, description) ==
    [counterparty |-> counterparty, description |-> description]

TxnPool == {Txn(<<"a">>, <<>>), Txn(<<"A">>, <<>>),
            Txn(<<"b">>, <<"n">>), Txn(<<"c">>, <<"N">>)}

BoundedSeq(S, n) == UNION {[1..k -> S] : k \in 0..n}

(***************************************************************************)
(* RuleEngine.__init__ and _load_rules.  A rules file is the mapping that  *)
(* yaml.safe_load returns, with 'rules' and 'exclude'; a file that does    *)
(* not exist has exists = FALSE, one that yaml.safe_load raises on (or     *)
(* that holds no mapping) has yaml_error = TRUE.                           *)
(***************************************************************************)
\* self.rules_file.exists()
file_exists(file) == Get(file, "exists", TRUE)

\* the file was opened and data.get(...) gave the two lists
file_read(file) == file_exists(file) /\ ~Get(file, "yaml_error", FALSE)

\* the first pre-compilation loop raised
rules_loop_raised(file) ==
    LET sorted == sort_rules(Get(file, "rules", <<>>))
    IN  first_key_error(sorted) <= Len(sorted)

\* _load_rules returned early or went through an except branch
load_failed(file) ==
    \/ ~file_read(file)
    \/ rules_loop_raised(file)
    \/ first_key_error(Get(file, "exclude", <<>>))
           <= Len(Get(file, "exclude", <<>>))

load_rules(file) ==
    /\ rules = IF load_failed(file) THEN <<>>
               ELSE sort_rules(Get(file, "rules", <<>>))
    /\ exclude_rules = IF file_read(file) THEN Get(file, "exclude", <<>>)
                       ELSE <<>>
    /\ compiled_patterns =
          IF file_read(file)
          THEN compile_all(sort_rules(Get(file, "rules", <<>>)))
          ELSE EmptyDict
    /\ compiled_exclude_patterns =
          IF file_read(file) /\ ~rules_loop_raised(file)
          THEN compile_all(Get(file, "exclude", <<>>))
          ELSE EmptyDict
    /\ stats = EmptyDict
    /\ exclude_stats = EmptyDict
    /\ cache = EmptyDict

InitEngine ==
    /\ rules_file \in {[rules |-> rs, exclude |-> <<>>] :
                         rs \in BoundedSeq(RulePool, MaxRules)}
    /\ load_rules(rules_file)
    /\ hist = <<>>
    /\ overrides_file = <<>>
    /\ overrides = EmptyDict
    /\ stores = EmptyDict
    /\ parsed = <<>>
    /\ all_transactions = <<>>
    /\ filtered_transactions = <<>>
    /\ report = None
    /\ pc = "engine"

NextEngine ==
    \/ \E t \in TxnPool : categorize(t)
    \/ \E r \in AddPool : add_rule(r)
    \/ clear_cache

SpecEngine == InitEngine /\ [][NextEngine]_vars

(***************************************************************************)
(* What the claims about the engine speak of.                              *)
(***************************************************************************)
Last == hist[Len(hist)]

IsCategorize(h) == h.op = "categorize"

\* rules in declaration order after the first k calls: the file's rules,
\* then the rules given to add_rule, in call order
DeclaredAt(k) ==
    LET adds == SelectSeq(SubSeq(hist, 1, k), LAMBDA h : h.op = "add_rule")
    IN  rules_file.rules \o [i \in 1..Len(adds) |-> adds[i].rule]

Declared == DeclaredAt(Len(hist))

NoAddRule == \A k \in 1..Len(hist) : hist[k].op # "add_rule"

\* the rule matches the transaction: its match type applied to its field,
\* a regex rule searched with the pattern compiled from its own pattern
RuleMatches(rule, transaction) ==
    match_with(rule, transaction, 0,
               IF Get(rule, "match_type", "contains") = "regex"
                  /\ RegexValid(rule.pattern)
               THEN 0 :> re_compile(rule.pattern,
                                    ~Get(rule, "case_sensitive", FALSE))
               ELSE EmptyDict,
               "counterparty")

\* positions in `declared` of the rule that has to win for the transaction:
\* it matches, and every other matching rule has a lower priority or has the
\* same priority and is declared later
Winners(declared, transaction) ==
    {i \in 1..Len(declared) :
        /\ RuleMatches(declared[i], transaction)
        /\ \A j \in 1..Len(declared) :
              (j # i /\ RuleMatches(declared[j], transaction)) =>
                  \/ Priority(declared[j]) < Priority(declared[i])
                  \/ /\ Priority(declared[j]) = Priority(declared[i])
                     /\ j > i}

PairOf(rule) == <<rule.category_main, rule.category_sub>>

Expected(declared, transaction) ==
    IF Winners(declared, transaction) = {} THEN DefaultPair
    ELSE PairOf(declared[CHOOSE i \in Winners(declared, transaction) : TRUE])

SameUpToCase(t1, t2) ==
    /\ Lower(t1.counterparty) = Lower(t2.counterparty)
    /\ Lower(t1.description) = Lower(t2.description)

\* C1: on a cache miss, categorize returns the pair of the matching rule with
\* the highest priority, the earlier declared among equal priorities, whatever
\* the declaration order, after load and after add_rule (the default pair when
\* no rule matches).
C1_HighestPriorityWins ==
    (/\ Len(hist) > 0
     /\ IsCategorize(Last)
     /\ Last.by # "cache"
     /\ Winners(Declared, Last.txn) # {})
        => Last.result = Expected(Declared, Last.txn)

\* C2: with a fixed rule set (no add_rule), every categorize call on T returns
\* the pair of the highest-priority rule matching T, also after the cache was
\* populated by earlier calls on other transactions.
C2_SameResultEveryCall ==
    NoAddRule =>
        \A k \in 1..Len(hist) :
            (IsCategorize(hist[k])
               /\ Winners(rules_file.rules, hist[k].txn) # {}) =>
                hist[k].result = Expected(rules_file.rules, hist[k].txn)

\* the step is a categorize call that directly follows a categorize call on a
\* transaction equal to it up to letter case
SecondCallStep ==
    /\ Len(hist) > 0
    /\ Len(hist') = Len(hist) + 1
    /\ IsCategorize(Last)
    /\ IsCategorize(hist'[Len(hist')])
    /\ SameUpToCase(Last.txn, hist'[Len(hist')].txn)

C4_StatsCountEveryCall ==
    (/\ Len(hist) > 0
     /\ \A k \in 1..Len(hist) : IsCategorize(hist[k]) /\ hist[k].txn = hist[1].txn
     /\ Winners(rules, hist[1].txn) # {})
        => LET i == CHOOSE j \in Winners(rules, hist[1].txn) : TRUE
           IN  Get(stats, rule_name(rules[i], i - 1), 0) = Len(hist)

\* the step is a categorize call on a transaction that matches no rule
NoMatchStep ==
    /\ Len(hist') = Len(hist) + 1
    /\ IsCategorize(hist'[Len(hist')])
    /\ Winners(Declared, hist'[Len(hist')].txn) = {}

\* categorize(T) with no rule matching T, add_rule(R) with R matching T, then
\* categorize(T) again: the last call returns R's pair
AddedRuleUsed ==
    \A k \in 1..(Len(hist) - 2) :
        (/\ IsCategorize(hist[k])
         /\ Winners(DeclaredAt(k), hist[k].txn) = {}
         /\ hist[k + 1].op = "add_rule"
         /\ RuleMatches(hist[k + 1].rule, hist[k].txn)
         /\ IsCategorize(hist[k + 2])
         /\ hist[k + 2].txn = hist[k].txn)
            => hist[k + 2].result = PairOf(hist[k + 1].rule)

\* C5: a transaction that matches no rule gets exactly the default pair, the
\* call leaves cache and usage counters unchanged, and a matching rule added
\* afterwards is used on the next call.
C5_DefaultNotCached ==
    [][/\ NoMatchStep =>
            /\ hist'[Len(hist')].result = DefaultPair
            /\ cache' = cache
            /\ stats' = stats
       /\ AddedRuleUsed']_vars

\* calls j < k of the history: an add_rule and the next categorize of the
\* transaction, with no other add_rule in between
AddThenCategorize(j, k) ==
    /\ j < k
    /\ hist[j].op = "add_rule"
    /\ IsCategorize(hist[k])
    /\ \A m \in (j + 1)..(k - 1) :
          /\ hist[m].op # "add_rule"
          /\ IsCategorize(hist[m]) => ~SameUpToCase(hist[m].txn, hist[k].txn)

\* C14: add_rule invalidates the whole cache: when a transaction was
\* categorized by a rule and a rule that matches it with a higher priority
\* than every rule matching it so far is added, the next categorize of the
\* transaction returns the added rule's pair, not the cached one.
C14_AddRuleInvalidatesCache ==
    \A i, j, k \in 1..Len(hist) :
        (/\ i < j
         /\ AddThenCategorize(j, k)
         /\ IsCategorize(hist[i])
         /\ hist[i].txn = hist[k].txn
         /\ hist[i].by # "default"
         /\ RuleMatches(hist[j].rule, hist[k].txn)
         /\ \A d \in 1..Len(DeclaredAt(j - 1)) :
               RuleMatches(DeclaredAt(j - 1)[d], hist[k].txn) =>
                   Priority(DeclaredAt(j - 1)[d]) < Priority(hist[j].rule))
            => hist[k].result = PairOf(hist[j].rule)

\* C15: a rule added by add_rule with match_type 'regex' and a valid pattern
\* is effective wherever its priority places it: categorize of a transaction
\* that it matches and that no rule earlier in priority order matches returns
\* the added rule's pair.
C15_AddedRegexRuleEffective ==
    \A j, k \in 1..Len(hist) :
        (/\ AddThenCategorize(j, k)
         /\ hist[j].rule.match_type = "regex"
         /\ RegexValid(hist[j].rule.pattern)
         /\ Len(DeclaredAt(j)) \in Winners(DeclaredAt(j), hist[k].txn))
            => hist[k].result = PairOf(hist[j].rule)

(***************************************************************************)
(* Python dicts in insertion order: sequences of <<key, value>> pairs.     *)
(***************************************************************************)
OHas(d, k) == \E i \in 1..Len(d) : d[i][1] = k

OIdx(d, k) == CHOOSE i \in 1..Len(d) : d[i][1] = k

OGet(d, k) == d[OIdx(d, k)][2]

\* defaultdict read: the stored value, or the factory's when the key is new
ODefault(d, k, default) == IF OHas(d, k) THEN OGet(d, k) ELSE default

\* d[k] = v: in place when k is present, appended otherwise
OPut(d, k, v) ==
    IF OHas(d, k) THEN [d EXCEPT ![OIdx(d, k)] = <<k, v>>]
    ELSE Append(d, <<k, v>>)

OKeys(d) == [i \in 1..Len(d) |-> d[i][1]]

OKeySet(d) == {d[i][1] : i \in 1..Len(d)}

\* the keys in descending order
RECURSIVE SortedSeqDescending(_)
SortedSeqDescending(S) ==
    IF S = {} THEN <<>>
    ELSE LET greatest == CHOOSE x \in S : \A y \in S : x >= y
         IN  <<greatest>> \o SortedSeqDescending(S \ {greatest})

\* sorted(keys): ascending
RECURSIVE SortedSeq(_)
SortedSeq(S) ==
    IF S = {} THEN <<>>
    ELSE LET least == CHOOSE x \in S : \A y \in S : x <= y
         IN  <<least>> \o SortedSeq(S \ {least})

(***************************************************************************)
(* Aggregator.aggregate                                                    *)
(***************************************************************************)
Transaction(id, year, month, description, counterparty, amount, transaction_type, category_main, category_sub) ==
    [id |-> id, date |-> [year |-> year, month |-> month],
     description |-> description, counterparty |-> counterparty,
     amount |-> amount, transaction_type |-> transaction_type,
     category_main |-> category_main, category_sub |-> category_sub,
     manual_override |-> FALSE]

\* `x or default` on an optional string
OrDefault(x, default) == IF x = None \/ x = "" THEN default ELSE x

EmptyMonth ==
    [categories |-> <<>>, total |-> 0, total_income |-> 0, total_expense |-> 0]

EmptyCell == [total |-> 0, count |-> 0, transactions |-> <<>>]

\* "Add to month totals", with the expense and income branches swapped
month_totals_swapped(month_data, trans) ==
    [month_data EXCEPT
        !.total_expense = IF trans.transaction_type = "expense"
                          THEN @ ELSE @ + trans.amount,
        !.total_income  = IF trans.transaction_type = "expense"
                          THEN @ + trans.amount ELSE @,
        !.total         = @ + trans.amount]

\* "Add to month totals"
month_totals(month_data, trans) ==
    [month_data EXCEPT
        !.total_expense = IF trans.transaction_type = "expense"
                          THEN @ + trans.amount ELSE @,
        !.total_income  = IF trans.transaction_type = "expense"
                          THEN @ ELSE @ + trans.amount,
        !.total         = @ + trans.amount]

\* the category pair without the fallback for a null category
resolve_category_raw(trans) == <<trans.category_main, trans.category_sub>>

\* cat_main / cat_sub of a transaction
resolve_category(trans) ==
    <<OrDefault(trans.category_main, "Inne wydatki"),
      OrDefault(trans.category_sub, "Nieprzypisane")>>

\* "Add to category"
cell_add(cat_data, trans) ==
    [total        |-> cat_data.total + trans.amount,
     count        |-> cat_data.count + 1,
     transactions |-> Append(cat_data.transactions, trans)]

\* one pass of the loop over the transactions
add_transaction(data, trans) ==
    LET year     == trans.date.year
        month    == trans.date.month
        months   == ODefault(data, year, <<>>)
        m1       == month_totals(ODefault(months, month, EmptyMonth), trans)
        cat_main == resolve_category(trans)[1]
        cat_sub  == resolve_category(trans)[2]
        subcats  == ODefault(m1.categories, cat_main, <<>>)
        cat_data == cell_add(ODefault(subcats, cat_sub, EmptyCell), trans)
        m2       == [m1 EXCEPT !.categories =
                        OPut(@, cat_main, OPut(subcats, cat_sub, cat_data))]
    IN  OPut(data, year, OPut(months, month, m2))

\* the loop over the transactions: data, grouped by year and month
RECURSIVE group(_)
group(transactions) ==
    IF transactions = <<>> THEN <<>>
    ELSE add_transaction(group(SubSeq(transactions, 1, Len(transactions) - 1)),
                         transactions[Len(transactions)])

\* "Track uncategorized"
track_uncategorized(transactions) ==
    SelectSeq(transactions, LAMBDA t : t.category_sub = "Nieprzypisane")

\* a month's categories as <<cat_main, cat_sub, values>> in iteration order
RECURSIVE flatten(_)
flatten(categories) ==
    IF categories = <<>> THEN <<>>
    ELSE LET cat_main == categories[1][1]
             subcats  == categories[1][2]
         IN  [i \in 1..Len(subcats) |-> <<cat_main, subcats[i][1], subcats[i][2]>>]
                 \o flatten(Tail(categories))

\* the cells of one month put in categories_year in place of what it holds
RECURSIVE add_cells_last(_, _)
add_cells_last(categories_year, cells) ==
    IF cells = <<>> THEN categories_year
    ELSE LET cat_main == cells[1][1]
             cat_sub  == cells[1][2]
             values   == cells[1][3]
             subcats  == ODefault(categories_year, cat_main, <<>>)
             new      == [total |-> values.total, count |-> values.count]
         IN  add_cells_last(OPut(categories_year, cat_main,
                                 OPut(subcats, cat_sub, new)),
                            Tail(cells))

\* "Aggregate to yearly": the cells of one month added to categories_year
RECURSIVE add_cells(_, _)
add_cells(categories_year, cells) ==
    IF cells = <<>> THEN categories_year
    ELSE LET cat_main == cells[1][1]
             cat_sub  == cells[1][2]
             values   == cells[1][3]
             subcats  == ODefault(categories_year, cat_main, <<>>)
             old      == ODefault(subcats, cat_sub, [total |-> 0, count |-> 0])
             new      == [total |-> old.total + values.total,
                          count |-> old.count + values.count]
         IN  add_cells(OPut(categories_year, cat_main,
                            OPut(subcats, cat_sub, new)),
                       Tail(cells))

EmptyYear ==
    [months |-> <<>>, total_year |-> 0, total_year_income |-> 0,
     total_year_expense |-> 0, categories_year |-> <<>>]

\* the yearly totals, with the month's total assigned instead of added
year_totals_assign(year_data, month_data) ==
    [year_data EXCEPT
        !.total_year         = month_data.total,
        !.total_year_income  = @ + month_data.total_income,
        !.total_year_expense = @ + month_data.total_expense]

\* year_data['total_year'] += ... and its income and expense
year_totals(year_data, month_data) ==
    [year_data EXCEPT
        !.total_year         = @ + month_data.total,
        !.total_year_income  = @ + month_data.total_income,
        !.total_year_expense = @ + month_data.total_expense]

\* one pass of the loop over the sorted months of a year
add_month(year_data, month, month_data) ==
    LET y1 == [year_data EXCEPT
                  !.months = Append(@, <<month,
                      [categories    |-> month_data.categories,
                       total         |-> month_data.total,
                       total_income  |-> month_data.total_income,
                       total_expense |-> month_data.total_expense]>>),
                  !.categories_year =
                      add_cells(@, flatten(month_data.categories))]
    IN  year_totals(y1, month_data)

RECURSIVE build_year(_, _)
build_year(months, sorted_months) ==
    IF sorted_months = <<>> THEN EmptyYear
    ELSE LET month == sorted_months[Len(sorted_months)]
         IN  add_month(build_year(months,
                           SubSeq(sorted_months, 1, Len(sorted_months) - 1)),
                       month, OGet(months, month))

\* the loop over the sorted years
build_years(data) ==
    LET sorted_years == SortedSeq(OKeySet(data))
    IN  [i \in 1..Len(sorted_years) |->
            <<sorted_years[i],
              build_year(OGet(data, sorted_years[i]),
                         SortedSeq(OKeySet(OGet(data, sorted_years[i]))))>>]

\* aggregate with total_categorized counting every transaction
aggregate_all_categorized(transactions) ==
    LET uncategorized == track_uncategorized(transactions)
    IN  [years            |-> build_years(group(transactions)),
         uncategorized    |-> uncategorized,
         all_transactions |-> transactions,
         summary          |->
             [total_transactions  |-> Len(transactions),
              total_categorized   |-> Len(transactions),
              total_uncategorized |-> Len(uncategorized)]]

\* Aggregator.aggregate(transactions)
aggregate(transactions) ==
    LET uncategorized == track_uncategorized(transactions)
    IN  [years            |-> build_years(group(transactions)),
         uncategorized    |-> uncategorized,
         all_transactions |-> transactions,
         summary          |->
             [total_transactions  |-> Len(transactions),
              total_categorized   |-> Len(transactions) - Len(uncategorized),
              total_uncategorized |-> Len(uncategorized)]]

(***************************************************************************)
(* Aggregator.get_top_expenses                                             *)
(***************************************************************************)
NoYear == 0         \* year=None; `if year` also takes 0 for no year

\* key = f"{cat_main} > {cat_sub}"
top_key(cat_main, cat_sub) == cat_main \o " > " \o cat_sub

\* float(values['total']): the double nearest to the decimal; it is exact to
\* 15 significant digits, more than any total of the model has, and keeps
\* the order of the totals
to_float(total) == total

\* the loops over categories.items() and subcats.items() of one year
RECURSIVE add_totals(_, _)
add_totals(category_totals, cells) ==
    IF cells = <<>> THEN category_totals
    ELSE LET cat_main == cells[1][1]
             cat_sub  == cells[1][2]
             values   == cells[1][3]
             key      == top_key(cat_main, cat_sub)
             old      == ODefault(category_totals, key, [total |-> 0, count |-> 0])
             new      == [total         |-> old.total + values.total,
                          count         |-> old.count + values.count,
                          category_main |-> cat_main,
                          category_sub  |-> cat_sub]
         IN  add_totals(OPut(category_totals, key, new), Tail(cells))

\* the loop over target_years: category_totals
RECURSIVE collect_totals(_, _)
collect_totals(years, target_years) ==
    IF target_years = <<>> THEN <<>>
    ELSE LET before == collect_totals(years,
                           SubSeq(target_years, 1, Len(target_years) - 1))
             yr     == target_years[Len(target_years)]
         IN  IF ~OHas(years, yr) THEN before
             ELSE add_totals(before, flatten(OGet(years, yr).categories_year))

\* the items left in the order in which they were encountered
keep_encounter_order(items) == items

\* sorted(items, key=total, reverse=True): stable, equal totals keep order
RECURSIVE sort_by_total(_)
sort_by_total(items) ==
    IF Len(items) <= 1 THEN items
    ELSE LET sorted == sort_by_total(SubSeq(items, 1, Len(items) - 1))
             last   == items[Len(items)]
             n      == Cardinality({i \in 1..Len(sorted) :
                                       sorted[i][2].total >= last[2].total})
         IN  SubSeq(sorted, 1, n) \o <<last>> \o SubSeq(sorted, n + 1, Len(sorted))

\* xs[:limit]
slice_to(xs, limit) ==
    IF limit >= 0
    THEN SubSeq(xs, 1, IF limit < Len(xs) THEN limit ELSE Len(xs))
    ELSE SubSeq(xs, 1, IF Len(xs) + limit > 0 THEN Len(xs) + limit ELSE 0)

\* Aggregator.get_top_expenses(aggregated_data, year, limit)
get_top_expenses(aggregated_data, year, limit) ==
    LET years             == aggregated_data.years
        target_years      == IF year # NoYear THEN <<year>> ELSE OKeys(years)
        sorted_categories == sort_by_total(collect_totals(years, target_years))
        top               == slice_to(sorted_categories, limit)
    IN  [i \in 1..Len(top) |->
            [category      |-> top[i][1],
             category_main |-> top[i][2].category_main,
             category_sub  |-> top[i][2].category_sub,
             total         |-> to_float(top[i][2].total),
             count         |-> top[i][2].count]]

\* Aggregator.get_monthly_summary(aggregated_data, year, month); {} is <<>>
get_monthly_summary(aggregated_data, year, month) ==
    LET years == aggregated_data.years
    IN  IF ~OHas(years, year) THEN <<>>
        ELSE ODefault(OGet(years, year).months, month, <<>>)

\* get_category_summary that ignores its category_main filter
get_category_summary_unfiltered(aggregated_data, year, category_main) ==
    LET years == aggregated_data.years
    IN  IF ~OHas(years, year) THEN <<>>
        ELSE OGet(years, year).categories_year

\* Aggregator.get_category_summary(aggregated_data, year, category_main)
get_category_summary(aggregated_data, year, category_main) ==
    LET years == aggregated_data.years
    IN  IF ~OHas(years, year) THEN <<>>
        ELSE LET categories == OGet(years, year).categories_year
             IN  IF category_main # None /\ category_main # ""
                 THEN ODefault(categories, category_main, <<>>)
                 ELSE categories

(***************************************************************************)
(* Transactions aggregate is exercised on: the fixture of                  *)
(* tests/test_aggregator.py (amounts in grosze), a transaction that was    *)
(* never categorized, an income in a category that also has expenses, a    *)
(* category whose total ties with another one's and a category that occurs *)
(* in two months of one year.                                              *)
(***************************************************************************)
AggTxnPool ==
    {Transaction("t1", 2026, 1, <<"b">>, <<"b">>, 10000, "expense",
                 "Jedzenie", "Zakupy spozywcze"),
     Transaction("t2", 2026, 1, <<"l">>, <<"l">>, 15000, "expense",
                 "Jedzenie", "Zakupy spozywcze"),
     Transaction("t3", 2026, 1, <<"m">>, <<"m">>, 4500, "expense",
                 "Jedzenie", "Restauracje"),
     Transaction("t4", 2026, 2, <<"o">>, <<"o">>, 25000, "expense",
                 "Transport", "Paliwo"),
     Transaction("t5", 2026, 1, <<"w">>, <<"p">>, 500000, "income",
                 "Przychody", "Wynagrodzenie"),
     Transaction("t6", 2026, 1, <<"n">>, <<"u">>, 7500, "expense",
                 "Inne wydatki", "Nieprzypisane"),
     Transaction("t7", 2025, 2, <<"x">>, <<"x">>, 7500, "expense", None, None),
     Transaction("t8", 2025, 1, <<"z">>, <<"b">>, 10000, "income",
                 "Jedzenie", "Zakupy spozywcze"),
     Transaction("t9", 2026, 1, <<"k">>, <<"k">>, 10000, "expense",
                 "Rozrywka", "Kino"),
     Transaction("t10", 2026, 2, <<"b">>, <<"b">>, 2000, "expense",
                 "Jedzenie", "Zakupy spozywcze")}

\* an engine and an override store that play no part
IdleEngine ==
    /\ rules_file = [rules |-> <<>>, exclude |-> <<>>]
    /\ load_rules(rules_file)
    /\ hist = <<>>

IdleOverrides ==
    /\ overrides_file = <<>>
    /\ overrides = EmptyDict
    /\ stores = EmptyDict

InitAgg ==
    /\ IdleEngine
    /\ IdleOverrides
    /\ all_transactions \in BoundedSeq(AggTxnPool, MaxTxns)
    /\ parsed = <<>>
    /\ filtered_transactions = <<>>
    /\ report = None
    /\ pc = "aggregate"

\* a call of Aggregator.aggregate on all_transactions
Aggregate ==
    /\ pc = "aggregate"
    /\ report' = aggregate(all_transactions)
    /\ pc' = "done"
    /\ UNCHANGED <<rules_file, hist, overrides_file, overrides, stores, parsed,
                   all_transactions, filtered_transactions>>
    /\ UNCHANGED engine_vars

MaxLimit == 3       \* largest limit given to get_top_expenses

TopYears == {NoYear, 2024, 2025, 2026}

\* a call of get_top_expenses on the report, with its result
GetTopExpenses(year, limit) ==
    /\ pc = "done"
    /\ hist' = Append(hist, [op |-> "get_top_expenses", year |-> year,
                             limit |-> limit,
                             result |-> get_top_expenses(report, year, limit)])
    /\ pc' = "top"
    /\ UNCHANGED <<rules_file, overrides_file, overrides, stores, parsed,
                   all_transactions, filtered_transactions, report>>
    /\ UNCHANGED engine_vars

SummaryMonths == {1, 2, 3}

SummaryCategories == {None, "", "Jedzenie", "Przychody", "Zdrowie"}

\* a call of get_monthly_summary on the report, with its result
GetMonthlySummary(year, month) ==
    /\ pc = "done"
    /\ hist' = Append(hist, [op |-> "get_monthly_summary", year |-> year,
                             month |-> month,
                             result |-> get_monthly_summary(report, year, month)])
    /\ pc' = "summary"
    /\ UNCHANGED <<rules_file, overrides_file, overrides, stores, parsed,
                   all_transactions, filtered_transactions, report>>
    /\ UNCHANGED engine_vars

\* a call of get_category_summary on the report, with its result
GetCategorySummary(year, category_main) ==
    /\ pc = "done"
    /\ hist' = Append(hist, [op |-> "get_category_summary", year |-> year,
                             category_main |-> category_main,
                             result |-> get_category_summary(report, year,
                                                             category_main)])
    /\ pc' = "summary"
    /\ UNCHANGED <<rules_file, overrides_file, overrides, stores, parsed,
                   all_transactions, filtered_transactions, report>>
    /\ UNCHANGED engine_vars

NextAgg ==
    \/ Aggregate
    \/ \E year \in TopYears, limit \in 0..MaxLimit : GetTopExpenses(year, limit)
    \/ \E year \in TopYears \ {NoYear}, month \in SummaryMonths :
          GetMonthlySummary(year, month)
    \/ \E year \in TopYears \ {NoYear}, category_main \in SummaryCategories :
          GetCategorySummary(year, category_main)

SpecAgg == InitAgg /\ [][NextAgg]_vars

(***************************************************************************)
(* What the claims about the report speak of.                              *)
(***************************************************************************)
RECURSIVE SumSeq(_)
SumSeq(xs) == IF xs = <<>> THEN 0 ELSE xs[1] + SumSeq(Tail(xs))

Amounts(ts) == [i \in 1..Len(ts) |-> ts[i].amount]

OfType(ts, type) == SelectSeq(ts, LAMBDA t : t.transaction_type = type)

Occurrences(t, ts) == Cardinality({i \in 1..Len(ts) : ts[i] = t})

\* the values of a dict, in order
OValues(d) == [i \in 1..Len(d) |-> d[i][2]]

\* all month records of the report, year by year
RECURSIVE Concat(_)
Concat(seqs) == IF seqs = <<>> THEN <<>> ELSE seqs[1] \o Concat(Tail(seqs))

YearRecords(r) == OValues(r.years)

MonthRecords(r) ==
    Concat([i \in 1..Len(r.years) |-> OValues(r.years[i][2].months)])

Field(records, f) == [i \in 1..Len(records) |-> records[i][f]]

\* the cells of the report as <<year, month, cat_main, cat_sub, values>>
CellsOfMonth(year, month, month_data) ==
    LET flat == flatten(month_data.categories)
    IN  [i \in 1..Len(flat) |->
            <<year, month, flat[i][1], flat[i][2], flat[i][3]>>]

CellsOfYear(year, year_data) ==
    Concat([i \in 1..Len(year_data.months) |->
               CellsOfMonth(year, year_data.months[i][1], year_data.months[i][2])])

Cells(r) ==
    Concat([i \in 1..Len(r.years) |-> CellsOfYear(r.years[i][1], r.years[i][2])])

Done == pc = "done"

\* C8: the months' total_expense, the years' total_year_expense and the
\* amounts of the expense transactions all sum to the same; likewise for
\* total_income, total_year_income and the income transactions.
C8_Conservation ==
    Done =>
        /\ SumSeq(Field(MonthRecords(report), "total_expense"))
              = SumSeq(Field(YearRecords(report), "total_year_expense"))
        /\ SumSeq(Field(YearRecords(report), "total_year_expense"))
              = SumSeq(Amounts(OfType(all_transactions, "expense")))
        /\ SumSeq(Field(MonthRecords(report), "total_income"))
              = SumSeq(Field(YearRecords(report), "total_year_income"))
        /\ SumSeq(Field(YearRecords(report), "total_year_income"))
              = SumSeq(Amounts(OfType(all_transactions, "income")))

\* a report over two years with expenses and an income
C8_Witness ==
    /\ Done
    /\ Len(report.years) = 2
    /\ Len(MonthRecords(report)) >= 2
    /\ OfType(all_transactions, "expense") # <<>>
    /\ OfType(all_transactions, "income") # <<>>

\* C9: in every month the totals of the category cells sum to the month's
\* total, and in every year the months' totals sum to total_year.
C9_TotalsAddUp ==
    Done =>
        \A i \in 1..Len(report.years) :
            LET year_data == report.years[i][2]
            IN  /\ SumSeq(Field(OValues(year_data.months), "total"))
                      = year_data.total_year
                /\ \A j \in 1..Len(year_data.months) :
                      LET month_data == year_data.months[j][2]
                          flat       == flatten(month_data.categories)
                      IN  SumSeq([k \in 1..Len(flat) |-> flat[k][3].total])
                              = month_data.total

\* a year with two months, one of them with two category cells
C9_Witness ==
    /\ Done
    /\ \E i \in 1..Len(report.years) :
          /\ Len(report.years[i][2].months) = 2
          /\ \E j \in 1..2 :
                Len(flatten(report.years[i][2].months[j][2].categories)) >= 2

\* the cell a transaction belongs to
CellKey(t) ==
    <<t.date.year, t.date.month,
      IF t.category_main \in {None, ""} THEN "Inne wydatki" ELSE t.category_main,
      IF t.category_sub \in {None, ""} THEN "Nieprzypisane" ELSE t.category_sub>>

\* C10: every transaction is in the transactions of exactly one cell, the one
\* of its year, month and category pair (the sentinel pair when null); a
\* cell's count is the length of its list and its total the sum of its
\* amounts; no cell is listed twice; the counts sum to the number of inputs.
C10_OneCellEach ==
    Done =>
        LET cells == Cells(report)
            key(c) == <<c[1], c[2], c[3], c[4]>>
        IN  /\ \A i \in 1..Len(all_transactions) :
                  \A k \in 1..Len(cells) :
                      Occurrences(all_transactions[i], cells[k][5].transactions)
                          = IF key(cells[k]) = CellKey(all_transactions[i])
                            THEN Occurrences(all_transactions[i], all_transactions)
                            ELSE 0
            /\ \A i \in 1..Len(all_transactions) :
                  \E k \in 1..Len(cells) :
                      key(cells[k]) = CellKey(all_transactions[i])
            /\ \A k, l \in 1..Len(cells) : key(cells[k]) = key(cells[l]) => k = l
            /\ \A k \in 1..Len(cells) :
                  /\ cells[k][5].count = Len(cells[k][5].transactions)
                  /\ cells[k][5].total = SumSeq(Amounts(cells[k][5].transactions))
            /\ SumSeq([k \in 1..Len(cells) |-> cells[k][5].count])
                  = Len(all_transactions)

\* an input with a never-categorized transaction and two transactions that
\* share a cell
C10_Witness ==
    /\ Done
    /\ \E i \in 1..Len(all_transactions) :
          all_transactions[i].category_main = None
    /\ \E k \in 1..Len(Cells(report)) : Cells(report)[k][5].count >= 2

(***************************************************************************)
(* RuleEngine.should_exclude                                               *)
(***************************************************************************)
\* should_exclude with the matching rule of the highest priority deciding
first_exclude_by_priority(transaction) ==
    LET hits == {i \in 1..Len(exclude_rules) :
                    match_exclude_rule(exclude_rules[i], transaction, i - 1)}
    IN  IF hits = {} THEN 0
        ELSE CHOOSE i \in hits :
                 \A j \in hits :
                     \/ Priority(exclude_rules[j]) < Priority(exclude_rules[i])
                     \/ /\ Priority(exclude_rules[j]) = Priority(exclude_rules[i])
                        /\ i <= j

\* position (1-based) of the first exclusion rule that matches, 0 when none
first_exclude(transaction) ==
    LET hits == {i \in 1..Len(exclude_rules) :
                    match_exclude_rule(exclude_rules[i], transaction, i - 1)}
    IN  IF hits = {} THEN 0
        ELSE CHOOSE i \in hits : \A j \in hits : i <= j

\* rule.get('name', f"exclude_{idx}")
exclude_name(rule, idx) == Get(rule, "name", "exclude_" \o ToString(idx))

\* should_exclude(transaction): the returned (should_exclude, reason)
should_exclude(transaction) ==
    LET i == first_exclude(transaction)
    IN  IF i = 0 THEN <<FALSE, None>>
        ELSE <<TRUE, Get(exclude_rules[i], "reason",
                         exclude_name(exclude_rules[i], i - 1))>>

\* should_exclude(transaction): exclude_stats after the call, s before it
should_exclude_stats(s, transaction) ==
    LET i == first_exclude(transaction)
    IN  IF i = 0 THEN s
        ELSE LET name == exclude_name(exclude_rules[i], i - 1)
             IN  DictPut(s, name, Get(s, name, 0) + 1)

\* a call of RuleEngine.should_exclude(transaction)
should_exclude_call(transaction) ==
    /\ Len(hist) < MaxCalls
    /\ exclude_stats' = should_exclude_stats(exclude_stats, transaction)
    /\ hist' = Append(hist, Call("should_exclude", transaction, None,
                                 should_exclude(transaction), None))
    /\ UNCHANGED <<rules_file, rules, exclude_rules, compiled_patterns,
                   compiled_exclude_patterns, stats, cache>>
    /\ UNCHANGED other_vars

(***************************************************************************)
(* Exclusion rule files and transactions should_exclude is exercised on.   *)
(***************************************************************************)
ExclTransfer ==
    [name |-> "internal", pattern |-> <<"X">>, match_type |-> "contains",
     reason |-> "Internal transfer"]

\* an exclusion rule that leaves name and reason to their defaults
ExclRegex ==
    [pattern |-> <<"c", "|", "d">>, field |-> "counterparty",
     match_type |-> "regex"]

\* an exclusion rule with a priority and no reason
ExclUrgent ==
    [name |-> "urgent", pattern |-> <<"x">>, field |-> "description",
     match_type |-> "exact", priority |-> 99]

ExclPool == {ExclTransfer, ExclRegex, ExclUrgent}

ExclTxnPool == {Txn(<<"a">>, <<"x">>), Txn(<<"c">>, <<"x">>),
                Txn(<<"c">>, <<>>), Txn(<<"a">>, <<>>)}

InitExclude ==
    /\ rules_file \in {[rules |-> <<>>, exclude |-> ex] :
                         ex \in BoundedSeq(ExclPool, MaxRules)}
    /\ load_rules(rules_file)
    /\ hist = <<>>
    /\ IdleOverrides
    /\ parsed = <<>>
    /\ all_transactions = <<>>
    /\ filtered_transactions = <<>>
    /\ report = None
    /\ pc = "engine"

NextExclude == \E t \in ExclTxnPool : should_exclude_call(t)

SpecExclude == InitExclude /\ [][NextExclude]_vars

(***************************************************************************)
(* What the claim about should_exclude speaks of.                          *)
(***************************************************************************)
\* the exclusion rule matches the transaction: its match type applied to its
\* field, a regex rule searched with the pattern compiled from its own pattern
ExcludeMatches(rule, transaction) ==
    match_with(rule, transaction, 0,
               IF Get(rule, "match_type", "contains") = "regex"
                  /\ RegexValid(rule.pattern)
               THEN 0 :> re_compile(rule.pattern,
                                    ~Get(rule, "case_sensitive", FALSE))
               ELSE EmptyDict,
               "description")

\* positions, in file order, of the exclusion rules that match
ExcludeHits(transaction) ==
    {i \in 1..Len(rules_file.exclude) :
        ExcludeMatches(rules_file.exclude[i], transaction)}

\* the step is a call of should_exclude
ExcludeStep ==
    /\ Len(hist') = Len(hist) + 1
    /\ hist'[Len(hist')].op = "should_exclude"

\* C13: should_exclude takes the first rule in file order that matches,
\* whatever the priorities; it returns (true, the rule's reason, or its name
\* when it has no reason) and adds one to that rule's exclusion counter and
\* to no other; when no rule matches it returns (false, null) and changes no
\* counter.
C13_FirstInFileOrder ==
    [][ExcludeStep =>
          LET call == hist'[Len(hist')]
              hits == ExcludeHits(call.txn)
              i    == CHOOSE j \in hits : \A k \in hits : j <= k
              rule == rules_file.exclude[i]
              name == Get(rule, "name", "exclude_" \o ToString(i - 1))
          IN  IF hits = {}
              THEN call.result = <<FALSE, None>> /\ exclude_stats' = exclude_stats
              ELSE /\ call.result = <<TRUE, Get(rule, "reason", name)>>
                   /\ DOMAIN exclude_stats' = DOMAIN exclude_stats \cup {name}
                   /\ exclude_stats'[name] = Get(exclude_stats, name, 0) + 1
                   /\ \A other \in DOMAIN exclude_stats :
                         other # name => exclude_stats'[other] = exclude_stats[other]
      ]_vars

\* the first rule of the file decided twice although the second rule, which
\* has the higher priority, matches as well
C13_Witness ==
    /\ rules_file.exclude = <<ExclTransfer, ExclUrgent>>
    /\ Len(hist) = 2
    /\ hist[1].txn = hist[2].txn
    /\ ExcludeMatches(ExclUrgent, hist[2].txn)
    /\ hist[2].result = <<TRUE, "Internal transfer">>
    /\ exclude_stats = ("internal" :> 2)

(***************************************************************************)
(* An engine constructed on a rules file that may be missing, unreadable   *)
(* or hold rules with a bad regex or without a pattern.                    *)
(***************************************************************************)
\* a regex rule whose pattern does not compile
RuleBadRegex ==
    [name |-> "bad_regex", pattern |-> <<"(">>, field |-> "counterparty",
     match_type |-> "regex", priority |-> 5,
     category_main |-> "Zdrowie", category_sub |-> "Apteka"]

\* a regex rule without a pattern
RuleNoPattern ==
    [name |-> "no_pattern", match_type |-> "regex", priority |-> 5,
     category_main |-> "Zdrowie", category_sub |-> "Lekarz"]

LoadRulePool == {RuleBiedronka, RuleBadRegex, RuleNoPattern}

ExclBadRegex ==
    [name |-> "bad_exclude", pattern |-> <<"x", "(">>, match_type |-> "regex",
     reason |-> "Bad"]

ExclNoPattern == [match_type |-> "regex"]

LoadExclPool == {ExclTransfer, ExclBadRegex, ExclNoPattern}

MissingFile == [exists |-> FALSE]

UnreadableFile == [exists |-> TRUE, yaml_error |-> TRUE]

LoadFiles ==
    {[rules |-> rs, exclude |-> ex] :
        rs \in BoundedSeq(LoadRulePool, MaxRules),
        ex \in BoundedSeq(LoadExclPool, MaxRules)}
      \cup {MissingFile, UnreadableFile}

LoadTxnPool == {Txn(<<"a">>, <<"x">>), Txn(<<"b">>, <<>>)}

InitLoad ==
    /\ rules_file \in LoadFiles
    /\ load_rules(rules_file)
    /\ hist = <<>>
    /\ IdleOverrides
    /\ parsed = <<>>
    /\ all_transactions = <<>>
    /\ filtered_transactions = <<>>
    /\ report = None
    /\ pc = "engine"

NextLoad ==
    \/ \E t \in LoadTxnPool : categorize(t)
    \/ \E t \in LoadTxnPool : should_exclude_call(t)
    \/ add_rule(RuleAddRegex)

SpecLoad == InitLoad /\ [][NextLoad]_vars

(***************************************************************************)
(* What the claims about loading speak of.                                 *)
(***************************************************************************)
\* a regex rule whose pattern fails to compile
BadRegex(rule) ==
    /\ Get(rule, "match_type", None) = "regex"
    /\ "pattern" \in DOMAIN rule
    /\ ~RegexValid(rule.pattern)

\* the rules without those whose pattern fails to compile
Sound(rs) == SelectSeq(rs, LAMBDA r : ~BadRegex(r))

\* the step is a call made on the engine
CallStep == Len(hist') = Len(hist) + 1

\* what should_exclude has to return on the exclusion rules ex
ExpectedExclude(ex, transaction) ==
    LET hits == {i \in 1..Len(ex) : ExcludeMatches(ex[i], transaction)}
        i    == CHOOSE j \in hits : \A k \in hits : j <= k
    IN  IF hits = {} THEN <<FALSE, None>>
        ELSE <<TRUE, Get(ex[i], "reason",
                         Get(ex[i], "name", "exclude_" \o ToString(i - 1)))>>

\* C16: a regex rule whose pattern fails to compile at load does not abort
\* the load and never matches afterwards; every other rule, categorization
\* or exclusion, stays loaded and decides as it would without the bad rule.
C16_BadRegexInert ==
    [][(~load_failed(rules_file) /\ CallStep) =>
          LET call == hist'[Len(hist')]
          IN  /\ Len(rules) = Len(Declared)
              /\ exclude_rules = rules_file.exclude
              /\ (IsCategorize(call) /\ call.by = "rule") =>
                    /\ ~BadRegex(rules[first_match(call.txn)])
                    /\ call.result = Expected(Sound(Declared), call.txn)
              /\ (IsCategorize(call) /\ call.by = "default") =>
                    Winners(Sound(Declared), call.txn) = {}
              /\ call.op = "should_exclude" =>
                    /\ \/ first_exclude(call.txn) = 0
                       \/ ~BadRegex(exclude_rules[first_exclude(call.txn)])
                    /\ call.result[1]
                          = ExpectedExclude(Sound(exclude_rules), call.txn)[1]
                    /\ call.result = ExpectedExclude(exclude_rules, call.txn)
      ]_vars

\* C17: when the rule source is missing or malformed the engine is empty:
\* categorize returns the default pair and should_exclude (false, null) for
\* every transaction, and no rule or compiled pattern of the failed load
\* stays active.
C17_FailedLoadIsEmpty ==
    load_failed(rules_file) =>
        /\ exclude_rules = <<>>
        /\ compiled_exclude_patterns = EmptyDict
        /\ NoAddRule => (rules = <<>> /\ compiled_patterns = EmptyDict)
        /\ \A k \in 1..Len(hist) :
              /\ (IsCategorize(hist[k])
                    /\ \A j \in 1..(k - 1) : hist[j].op # "add_rule")
                    => hist[k].result = DefaultPair
              /\ hist[k].op = "should_exclude"
                    => hist[k].result = <<FALSE, None>>

(***************************************************************************)
(* ManualOverrides: load and get                                           *)
(***************************************************************************)
Truthy(x) == x # None /\ x # ""

\* _load_overrides: the entries with id and both categories set, a later
\* entry for an id replacing an earlier one
RECURSIVE load_overrides(_)
load_overrides(overrides_list) ==
    IF overrides_list = <<>> THEN EmptyDict
    ELSE LET before   == load_overrides(SubSeq(overrides_list, 1,
                                               Len(overrides_list) - 1))
             override == overrides_list[Len(overrides_list)]
         IN  IF /\ override.transaction_id # None
                /\ Truthy(override.category_main)
                /\ Truthy(override.category_sub)
             THEN DictPut(before, override.transaction_id,
                          <<override.category_main, override.category_sub>>)
             ELSE before

(***************************************************************************)
(* analyze (cli/main.py): filter, categorize, aggregate                    *)
(***************************************************************************)
\* Transaction.__post_init__: the id is a digest of date, description, amount
TxnId(year, month, description, amount) == <<year, month, description, amount>>

\* a transaction as a parser builds it
ParserTxn(year, month, description, counterparty, amount, transaction_type) ==
    Transaction(TxnId(year, month, description, amount), year, month,
                description, counterparty, amount, transaction_type, None, None)

\* "Filter out excluded transactions", with the test inverted
keep_excluded(kept, trans) ==
    IF should_exclude(trans)[1] THEN Append(kept, trans) ELSE kept

\* one pass of "Filter out excluded transactions": filtered_transactions
keep(kept, trans) ==
    IF should_exclude(trans)[1] THEN kept ELSE Append(kept, trans)

RECURSIVE filter_loop(_)
filter_loop(transactions) ==
    IF transactions = <<>>
    THEN [kept |-> <<>>, exclude_stats |-> exclude_stats, calls |-> <<>>]
    ELSE LET before == filter_loop(SubSeq(transactions, 1, Len(transactions) - 1))
             trans  == transactions[Len(transactions)]
         IN  [kept          |-> keep(before.kept, trans),
              exclude_stats |-> should_exclude_stats(before.exclude_stats, trans),
              calls         |-> Append(before.calls,
                                  Call("should_exclude", trans, None,
                                       should_exclude(trans), None))]

\* the categorization step with the rules consulted before the override
assign_category_rules_first(eng, trans) ==
    IF categorize_by(eng.cache, trans) = "default" /\ trans.id \in DOMAIN overrides
    THEN [eng EXCEPT
            !.done = Append(@, [trans EXCEPT
                        !.category_main   = overrides[trans.id][1],
                        !.category_sub    = overrides[trans.id][2],
                        !.manual_override = TRUE])]
    ELSE [done  |-> Append(eng.done, [trans EXCEPT
                        !.category_main = categorize_result(eng.cache, trans)[1],
                        !.category_sub  = categorize_result(eng.cache, trans)[2]]),
          cache |-> categorize_cache(eng.cache, trans),
          stats |-> categorize_stats(eng.cache, eng.stats, trans),
          calls |-> Append(eng.calls,
                      Call("categorize", trans, None,
                           categorize_result(eng.cache, trans),
                           categorize_by(eng.cache, trans)))]

\* one pass of the categorization loop: "Check manual override first",
\* else "Categorize with rules"
assign_category(eng, trans) ==
    IF trans.id \in DOMAIN overrides
    THEN [eng EXCEPT
            !.done = Append(@, [trans EXCEPT
                        !.category_main   = overrides[trans.id][1],
                        !.category_sub    = overrides[trans.id][2],
                        !.manual_override = TRUE])]
    ELSE [done  |-> Append(eng.done, [trans EXCEPT
                        !.category_main = categorize_result(eng.cache, trans)[1],
                        !.category_sub  = categorize_result(eng.cache, trans)[2]]),
          cache |-> categorize_cache(eng.cache, trans),
          stats |-> categorize_stats(eng.cache, eng.stats, trans),
          calls |-> Append(eng.calls,
                      Call("categorize", trans, None,
                           categorize_result(eng.cache, trans),
                           categorize_by(eng.cache, trans)))]

RECURSIVE categorize_loop(_)
categorize_loop(transactions) ==
    IF transactions = <<>>
    THEN [done |-> <<>>, cache |-> cache, stats |-> stats, calls |-> <<>>]
    ELSE assign_category(
             categorize_loop(SubSeq(transactions, 1, Len(transactions) - 1)),
             transactions[Len(transactions)])

\* "No transactions found!": sys.exit(1)
no_transactions ==
    /\ pc = "parsed"
    /\ all_transactions = <<>>
    /\ pc' = "exit"
    /\ UNCHANGED <<rules_file, hist, overrides_file, overrides, stores, parsed,
                   all_transactions, filtered_transactions, report>>
    /\ UNCHANGED engine_vars

\* "Filter out excluded transactions"
filter_excluded ==
    /\ pc = "parsed"
    /\ all_transactions # <<>>
    /\ filtered_transactions' = filter_loop(all_transactions).kept
    /\ exclude_stats' = filter_loop(all_transactions).exclude_stats
    /\ hist' = hist \o filter_loop(all_transactions).calls
    /\ pc' = "categorize"
    /\ UNCHANGED <<rules_file, rules, exclude_rules, compiled_patterns,
                   compiled_exclude_patterns, stats, cache, overrides_file,
                   overrides, stores, parsed, all_transactions, report>>

\* "Categorization"
categorization ==
    /\ pc = "categorize"
    /\ filtered_transactions' = categorize_loop(filtered_transactions).done
    /\ cache' = categorize_loop(filtered_transactions).cache
    /\ stats' = categorize_loop(filtered_transactions).stats
    /\ hist' = hist \o categorize_loop(filtered_transactions).calls
    /\ pc' = "aggregate"
    /\ UNCHANGED <<rules_file, rules, exclude_rules, compiled_patterns,
                   compiled_exclude_patterns, exclude_stats, overrides_file,
                   overrides, stores, parsed, all_transactions, report>>

\* "Use filtered transactions for aggregation" and "Aggregation"
aggregation ==
    /\ pc = "aggregate"
    /\ all_transactions' = filtered_transactions
    /\ report' = aggregate(filtered_transactions)
    /\ pc' = "done"
    /\ UNCHANGED <<rules_file, hist, overrides_file, overrides, stores, parsed,
                   filtered_transactions>>
    /\ UNCHANGED engine_vars

(***************************************************************************)
(* Inputs the pipeline is exercised on.                                    *)
(***************************************************************************)
MaxPipeTxns == 3    \* transactions the parsers return

PipeRuleFiles ==
    {[rules |-> <<>>, exclude |-> <<>>],
     [rules |-> <<RuleBiedronka, RuleNetflix>>, exclude |-> <<ExclTransfer>>],
     [rules |-> <<RuleBiedronka, RuleExactCS>>,
      exclude |-> <<ExclRegex, ExclTransfer>>]}

PipeTxnPool ==
    {ParserTxn(2026, 1, <<>>, <<"a">>, 10000, "expense"),
     ParserTxn(2026, 1, <<"n">>, <<"A">>, 4500, "expense"),
     ParserTxn(2026, 2, <<"x">>, <<"a">>, 25000, "expense"),
     ParserTxn(2025, 1, <<>>, <<"c">>, 500000, "income")}

Override(transaction_id, category_main, category_sub) ==
    [transaction_id |-> transaction_id, category_main |-> category_main,
     category_sub |-> category_sub, note |-> ""]

PipeOverrideFiles ==
    {<<>>,
     <<Override(TxnId(2026, 1, <<>>, 10000), "Dom", "Czynsz")>>,
     <<Override(TxnId(2026, 1, <<>>, 10000), "Dom", "Czynsz"),
       Override(TxnId(2026, 1, <<>>, 10000), "Rozrywka", "Kino"),
       Override(TxnId(2025, 1, <<>>, 500000), "Przychody", "Wynagrodzenie")>>,
     <<Override(TxnId(2026, 1, <<"n">>, 4500), "Dom", ""),
       Override(TxnId(2026, 2, <<"x">>, 25000), "Dom", "Czynsz")>>}

\* analyze after parsing, with the engine and the override store constructed
InitPipeline ==
    /\ rules_file \in PipeRuleFiles
    /\ load_rules(rules_file)
    /\ hist = <<>>
    /\ overrides_file \in PipeOverrideFiles
    /\ overrides = load_overrides(overrides_file)
    /\ stores = EmptyDict
    /\ parsed \in BoundedSeq(PipeTxnPool, MaxPipeTxns)
    /\ all_transactions = parsed
    /\ filtered_transactions = <<>>
    /\ report = None
    /\ pc = "parsed"

NextPipeline ==
    \/ no_transactions
    \/ filter_excluded
    \/ categorization
    \/ aggregation

SpecPipeline == InitPipeline /\ [][NextPipeline]_vars

(***************************************************************************)
(* What the claims about the pipeline speak of.                            *)
(***************************************************************************)
\* positions of the entries of the durable collection that record an
\* override for the id
Recorded(id) ==
    {i \in 1..Len(overrides_file) :
        /\ overrides_file[i].transaction_id = id
        /\ overrides_file[i].category_main \notin {None, ""}
        /\ overrides_file[i].category_sub \notin {None, ""}}

\* the pair of the override recorded for the id (of the last entry for it)
RecordedPair(id) ==
    LET i == CHOOSE j \in Recorded(id) : \A k \in Recorded(id) : k <= j
    IN  <<overrides_file[i].category_main, overrides_file[i].category_sub>>

\* the transaction as it was before categorization
Uncategorized(t) ==
    [t EXCEPT !.category_main = None, !.category_sub = None,
              !.manual_override = FALSE]

CategorizeCalls == SelectSeq(hist, IsCategorize)

ExcludeCalls == SelectSeq(hist, LAMBDA h : h.op = "should_exclude")

\* C6: at the end of the pipeline a transaction whose id has an override
\* recorded carries the override's pair and manual_override = TRUE, whatever
\* the rules say; the other transactions were given to categorize, in order,
\* carry its result and keep manual_override = FALSE.
C6_OverrideWins ==
    Done =>
        LET out   == report.all_transactions
            plain == SelectSeq(out, LAMBDA t : Recorded(t.id) = {})
        IN  /\ \A i \in 1..Len(out) :
                  Recorded(out[i].id) # {} =>
                      /\ <<out[i].category_main, out[i].category_sub>>
                            = RecordedPair(out[i].id)
                      /\ out[i].manual_override = TRUE
            /\ Len(CategorizeCalls) = Len(plain)
            /\ \A k \in 1..Len(plain) :
                  /\ CategorizeCalls[k].txn = Uncategorized(plain[k])
                  /\ <<plain[k].category_main, plain[k].category_sub>>
                        = CategorizeCalls[k].result
                  /\ plain[k].manual_override = FALSE

\* the pipeline ended with a transaction that has an override and is matched
\* by a rule with another pair, and a transaction without an override
C6_Witness ==
    /\ Done
    /\ \E i \in 1..Len(report.all_transactions) :
          LET t == report.all_transactions[i]
          IN  /\ Recorded(t.id) # {}
              /\ \E j \in 1..Len(rules) :
                    /\ RuleMatches(rules[j], t)
                    /\ PairOf(rules[j]) # RecordedPair(t.id)
    /\ \E i \in 1..Len(report.all_transactions) :
          Recorded(report.all_transactions[i].id) = {}

\* the transactions of the report: of every cell, of uncategorized and of
\* all_transactions
ReportTransactions(r) ==
    Concat([k \in 1..Len(Cells(r)) |-> Cells(r)[k][5].transactions])
        \o r.uncategorized \o r.all_transactions

\* C7: a transaction for which should_exclude returned true is not given to
\* categorize nor to aggregate and is in no cell, no total, not in
\* uncategorized and not in all_transactions; those for which it returned
\* false are passed on, in the original order.
C7_ExcludedNeverAggregated ==
    Done =>
        LET excluded == SelectSeq(ExcludeCalls, LAMBDA h : h.result[1])
            passed   == SelectSeq(ExcludeCalls, LAMBDA h : ~h.result[1])
            out      == report.all_transactions
            inside   == ReportTransactions(report)
        IN  /\ Len(ExcludeCalls) = Len(parsed)
            /\ \A i \in 1..Len(parsed) : ExcludeCalls[i].txn = parsed[i]
            /\ Len(out) = Len(passed)
            /\ \A k \in 1..Len(passed) : Uncategorized(out[k]) = passed[k].txn
            /\ \A e \in 1..Len(excluded) :
                  /\ \A c \in 1..Len(CategorizeCalls) :
                        CategorizeCalls[c].txn # excluded[e].txn
                  /\ \A i \in 1..Len(inside) :
                        Uncategorized(inside[i]) # excluded[e].txn
            /\ SumSeq(Field(MonthRecords(report), "total"))
                  = SumSeq([k \in 1..Len(passed) |-> passed[k].txn.amount])
            /\ SumSeq(Field(YearRecords(report), "total_year"))
                  = SumSeq([k \in 1..Len(passed) |-> passed[k].txn.amount])

\* the pipeline ended with an excluded transaction between two that passed
C7_Witness ==
    /\ Done
    /\ Len(ExcludeCalls) = 3
    /\ ~ExcludeCalls[1].result[1]
    /\ ExcludeCalls[2].result[1]
    /\ ~ExcludeCalls[3].result[1]
    /\ ExcludeCalls[1].txn # ExcludeCalls[3].txn

(***************************************************************************)
(* report.uncategorized                                                    *)
(***************************************************************************)
\* the transactions of the cells whose subcategory is "Nieprzypisane"
UnassignedCells(r) ==
    Concat([k \in 1..Len(Cells(r)) |->
               IF Cells(r)[k][4] = "Nieprzypisane"
               THEN Cells(r)[k][5].transactions ELSE <<>>])

\* C11: report.uncategorized holds exactly the transactions whose resolved
\* category_sub (category_sub, or "Nieprzypisane" when it is null) is
\* "Nieprzypisane", each once and in input order; so it has the same members
\* as the "Nieprzypisane" cells together.
C11_UncategorizedExact ==
    Done =>
        /\ report.uncategorized
              = SelectSeq(all_transactions,
                          LAMBDA t : CellKey(t)[4] = "Nieprzypisane")
        /\ \A i \in 1..Len(all_transactions) :
              Occurrences(all_transactions[i], report.uncategorized)
                  = Occurrences(all_transactions[i], UnassignedCells(report))

(***************************************************************************)
(* What the claims about get_top_expenses speak of.                        *)
(***************************************************************************)
Queried == pc = "top"

\* the years a query selects, in the order of the report
SelectedYears(r, year) ==
    SelectSeq(OKeys(r.years), LAMBDA y : year = NoYear \/ y = year)

\* the <<key, total>> of every category cell of the selected years, year by
\* year in the order of categories_year
Encountered(r, year) ==
    LET ys == SelectedYears(r, year)
    IN  Concat([i \in 1..Len(ys) |->
            LET flat == flatten(OGet(r.years, ys[i]).categories_year)
            IN  [k \in 1..Len(flat) |->
                    <<flat[k][1] \o " > " \o flat[k][2], flat[k][3].total>>]])

EncounteredKeys(r, year) ==
    {Encountered(r, year)[i][1] : i \in 1..Len(Encountered(r, year))}

\* position at which the category was first encountered
FirstSeen(r, year, key) ==
    CHOOSE i \in 1..Len(Encountered(r, year)) :
        /\ Encountered(r, year)[i][1] = key
        /\ \A j \in 1..(i - 1) : Encountered(r, year)[j][1] # key

\* the category's total over the selected years
KeyTotal(r, year, key) ==
    SumSeq([i \in 1..Len(Encountered(r, year)) |->
               IF Encountered(r, year)[i][1] = key
               THEN Encountered(r, year)[i][2] ELSE 0])

\* C12: get_top_expenses returns at most `limit` entries, their totals
\* non-increasing; entries with equal totals are in the order in which their
\* categories were first encountered; no omitted category has a total greater
\* than a returned one.
C12_TopSorted ==
    Queried =>
        LET q       == hist[Len(hist)]
            top     == q.result
            omitted == EncounteredKeys(report, q.year)
                           \ {top[i].category : i \in 1..Len(top)}
        IN  /\ Len(top) <= q.limit
            /\ \A i \in 1..(Len(top) - 1) : top[i].total >= top[i + 1].total
            /\ \A i, j \in 1..Len(top) :
                  (i < j /\ top[i].total = top[j].total) =>
                      FirstSeen(report, q.year, top[i].category)
                          < FirstSeen(report, q.year, top[j].category)
            /\ \A key \in omitted : \A i \in 1..Len(top) :
                  KeyTotal(report, q.year, key) <= top[i].total

\* a query that returned two categories with equal totals, the one met first
\* not being the first in the alphabet, and left a category out
C12_Witness ==
    /\ Queried
    /\ hist[Len(hist)].limit = 2
    /\ Len(hist[Len(hist)].result) = 2
    /\ hist[Len(hist)].result[1].total = hist[Len(hist)].result[2].total
    /\ hist[Len(hist)].result[1].category = "Rozrywka > Kino"
    /\ hist[Len(hist)].result[2].category = "Jedzenie > Zakupy spozywcze"
    /\ Cardinality(EncounteredKeys(report, hist[Len(hist)].year)) = 3

(***************************************************************************)
(* ManualOverrides: add and remove on a store with a backing file.  The    *)
(* durable collection is the list under 'overrides' of the file; a file    *)
(* that does not exist yet holds no entry.                                 *)
(***************************************************************************)
MaxStoreCalls == 3  \* calls made on one store

\* datetime.now().strftime('%Y-%m-%d')
Today == "2026-01-01"

\* _save that always takes the "Add new" branch
save_append(entries, transaction_id, category_main, category_sub, note) ==
    Append(entries,
           [transaction_id |-> transaction_id, category_main |-> category_main,
            category_sub |-> category_sub, note |-> note, date_added |-> Today])

\* ManualOverrides._save: the entries written, from the entries read
save(entries, transaction_id, category_main, category_sub, note) ==
    LET existing == {i \in 1..Len(entries) :
                        Get(entries[i], "transaction_id", None) = transaction_id}
    IN  IF existing # {}
        THEN LET i == CHOOSE j \in existing : \A k \in existing : j <= k
             IN  [entries EXCEPT ![i] =
                    DictPut(DictPut(DictPut(DictPut(@,
                        "category_main", category_main),
                        "category_sub", category_sub),
                        "note", note),
                        "date_updated", Today)]
        ELSE Append(entries,
                    [transaction_id |-> transaction_id,
                     category_main |-> category_main,
                     category_sub |-> category_sub, note |-> note,
                     date_added |-> Today])

\* _remove_from_file dropping only the first entry of the id
remove_first_from_file(entries, transaction_id) ==
    LET hits == {i \in 1..Len(entries) :
                    Get(entries[i], "transaction_id", None) = transaction_id}
    IN  IF hits = {} THEN entries
        ELSE LET i == CHOOSE j \in hits : \A k \in hits : j <= k
             IN  SubSeq(entries, 1, i - 1) \o SubSeq(entries, i + 1, Len(entries))

\* ManualOverrides._remove_from_file: the entries written, from those read
remove_from_file(entries, transaction_id) ==
    SelectSeq(entries,
              LAMBDA o : Get(o, "transaction_id", None) # transaction_id)

store_frame == <<rules_file, stores, parsed, all_transactions,
                 filtered_transactions, report, pc>>

\* ManualOverrides.add(transaction_id, category_main, category_sub, note)
add(transaction_id, category_main, category_sub, note) ==
    /\ Len(hist) < MaxStoreCalls
    /\ overrides' = DictPut(overrides, transaction_id,
                            <<category_main, category_sub>>)
    /\ overrides_file' = save(overrides_file, transaction_id, category_main,
                              category_sub, note)
    /\ hist' = Append(hist, [op |-> "add", transaction_id |-> transaction_id,
                             category_main |-> category_main,
                             category_sub |-> category_sub, note |-> note,
                             result |-> None])
    /\ UNCHANGED store_frame
    /\ UNCHANGED engine_vars

\* ManualOverrides.remove(transaction_id)
remove(transaction_id) ==
    /\ Len(hist) < MaxStoreCalls
    /\ IF transaction_id \notin DOMAIN overrides
       THEN UNCHANGED <<overrides, overrides_file>>
       ELSE /\ overrides' = [k \in DOMAIN overrides \ {transaction_id} |->
                                overrides[k]]
            /\ overrides_file' = remove_from_file(overrides_file, transaction_id)
    /\ hist' = Append(hist, [op |-> "remove", transaction_id |-> transaction_id,
                             result |-> transaction_id \in DOMAIN overrides])
    /\ UNCHANGED store_frame
    /\ UNCHANGED engine_vars

(***************************************************************************)
(* Override files and inputs the store is exercised on.                    *)
(***************************************************************************)
StoreFiles ==
    {<<>>,
     <<Override("id1", "Dom", "Czynsz")>>,
     <<Override("id1", "Dom", "Czynsz"), Override("id2", "Rozrywka", "Kino")>>,
     \* an entry without a subcategory, which the load skips
     <<Override("id2", "Dom", ""), Override("id1", "Dom", "Czynsz")>>,
     \* a file edited by hand, with two entries for one id
     <<Override("id1", "Dom", "Czynsz"), Override("id2", "Rozrywka", "Kino"),
       Override("id1", "Rozrywka", "Kino")>>}

StoreIds == {"id1", "id2"}

StorePairs == {<<"Transport", "Taxi">>, <<"", "Taxi">>}

StoreNotes == {"", "note"}

InitStore ==
    /\ IdleEngine
    /\ overrides_file \in StoreFiles
    /\ overrides = load_overrides(overrides_file)
    /\ stores = EmptyDict
    /\ parsed = <<>>
    /\ all_transactions = <<>>
    /\ filtered_transactions = <<>>
    /\ report = None
    /\ pc = "store"

NextStore ==
    \/ \E id \in StoreIds, pair \in StorePairs, note \in StoreNotes :
          add(id, pair[1], pair[2], note)
    \/ \E id \in StoreIds : remove(id)

SpecStore == InitStore /\ [][NextStore]_vars

(***************************************************************************)
(* What the claims about the override store speak of.                      *)
(***************************************************************************)
\* positions of the entries of the id in a durable collection
EntriesOf(entries, id) ==
    {i \in 1..Len(entries) : entries[i].transaction_id = id}

StoreStep(op) ==
    /\ Len(hist') = Len(hist) + 1
    /\ hist'[Len(hist')].op = op

\* C18: add(id, main, sub, note): when the durable collection has an entry
\* for id, that entry's category and note are updated in place, number and
\* order of the entries unchanged; otherwise one entry is appended at the
\* end; entries of other ids are unchanged; get(id) returns (main, sub).
C18_AddUpdatesInPlace ==
    [][StoreStep("add") =>
          LET call   == hist'[Len(hist')]
              id     == call.transaction_id
              before == overrides_file
              after  == overrides_file'
              set(e) == /\ e.transaction_id = id
                        /\ e.category_main = call.category_main
                        /\ e.category_sub = call.category_sub
                        /\ e.note = call.note
          IN  /\ IF EntriesOf(before, id) # {}
                 THEN /\ Len(after) = Len(before)
                      /\ \A i \in 1..Len(before) :
                            after[i].transaction_id = before[i].transaction_id
                      /\ \E i \in EntriesOf(before, id) : set(after[i])
                 ELSE /\ Len(after) = Len(before) + 1
                      /\ set(after[Len(after)])
              /\ \A i \in 1..Len(before) :
                    before[i].transaction_id # id => after[i] = before[i]
              /\ DictGet(overrides', id) = <<call.category_main, call.category_sub>>
      ]_vars

\* one add that updated the entry of its id in place, next to the entry of
\* another id
C18_Witness ==
    /\ Len(hist) = 1
    /\ hist[1].op = "add"
    /\ hist[1].category_main = "Transport"
    /\ Len(overrides_file) = 2
    /\ overrides_file[1].transaction_id = hist[1].transaction_id
    /\ overrides_file[1].category_main = "Transport"
    /\ "date_updated" \in DOMAIN overrides_file[1]
    /\ overrides_file[2].transaction_id # hist[1].transaction_id

\* C19: an override written with add is durable: a fresh store loaded from
\* the file returns (main, sub) for get(id); and after any sequence of add
\* and remove on one store the in-memory map equals the map a fresh load of
\* the file gives.
C19_AddIsDurable ==
    /\ overrides = load_overrides(overrides_file)
    /\ (Len(hist) > 0 /\ hist[Len(hist)].op = "add") =>
          DictGet(load_overrides(overrides_file), hist[Len(hist)].transaction_id)
              = <<hist[Len(hist)].category_main, hist[Len(hist)].category_sub>>

\* C20: remove(id) returns true exactly when id is in the in-memory map;
\* then id is gone from memory and the durable collection is rewritten
\* without any entry for id, the other entries unchanged; otherwise it
\* returns false and changes neither memory nor the durable collection.
C20_RemoveExact ==
    [][StoreStep("remove") =>
          LET call == hist'[Len(hist')]
              id   == call.transaction_id
          IN  /\ call.result = (id \in DOMAIN overrides)
              /\ IF id \in DOMAIN overrides
                 THEN /\ DictGet(overrides', id) = None
                      /\ DOMAIN overrides' = DOMAIN overrides \ {id}
                      /\ \A k \in DOMAIN overrides' : overrides'[k] = overrides[k]
                      /\ EntriesOf(overrides_file', id) = {}
                      /\ overrides_file'
                            = SelectSeq(overrides_file,
                                        LAMBDA e : e.transaction_id # id)
                 ELSE overrides' = overrides /\ overrides_file' = overrides_file
      ]_vars

\* a remove that found its id and left only the entry of the other id, and
\* a remove of an id that is in the file but not in memory
C20_Witness ==
    /\ Len(hist) = 2
    /\ hist[1].op = "remove"
    /\ hist[1].result
    /\ hist[2].op = "remove"
    /\ ~hist[2].result
    /\ hist[2].transaction_id # hist[1].transaction_id
    /\ Len(overrides_file) = 1
    /\ overrides_file[1].transaction_id = hist[2].transaction_id

(***************************************************************************)
(* Several ManualOverrides instances on one file: each has its own        *)
(* in-memory map, loaded when it was constructed, and all of them read    *)
(* and write the one durable collection overrides_file.                    *)
(***************************************************************************)
StoreNames == {"A", "B"}

MaxSharedCalls == 3     \* calls made on the instances together

\* ManualOverrides(overrides_file): the instance after construction
ManualOverrides(file) ==
    [overrides |-> load_overrides(file), at |-> "idle", data |-> <<>>]

\* a read that finds no entries, whatever the file holds
read_nothing(file) == <<>>

\* "Load existing data": yaml.safe_load(f) or {'overrides': []}, and an empty
\* collection for a file that does not exist; data['overrides'] of it
read_data(file) == file

\* add on instance s, from the first line to the last
store_add(s, transaction_id, category_main, category_sub, note) ==
    /\ Len(hist) < MaxSharedCalls
    /\ stores' = [stores EXCEPT ![s].overrides =
                     DictPut(@, transaction_id, <<category_main, category_sub>>)]
    /\ overrides_file' = save(read_data(overrides_file), transaction_id,
                              category_main, category_sub, note)
    /\ hist' = Append(hist, [op |-> "add", store |-> s,
                             transaction_id |-> transaction_id,
                             category_main |-> category_main,
                             category_sub |-> category_sub, note |-> note,
                             result |-> None])
    /\ UNCHANGED <<rules_file, overrides, parsed, all_transactions,
                   filtered_transactions, report, pc>>
    /\ UNCHANGED engine_vars

\* remove on instance s, from the first line to the last
store_remove(s, transaction_id) ==
    /\ Len(hist) < MaxSharedCalls
    /\ IF transaction_id \notin DOMAIN stores[s].overrides
       THEN UNCHANGED <<stores, overrides_file>>
       ELSE /\ stores' = [stores EXCEPT ![s].overrides =
                             [k \in DOMAIN @ \ {transaction_id} |-> @[k]]]
            /\ overrides_file' = remove_from_file(read_data(overrides_file),
                                                  transaction_id)
    /\ hist' = Append(hist, [op |-> "remove", store |-> s,
                             transaction_id |-> transaction_id,
                             result |-> transaction_id
                                           \in DOMAIN stores[s].overrides])
    /\ UNCHANGED <<rules_file, overrides, parsed, all_transactions,
                   filtered_transactions, report, pc>>
    /\ UNCHANGED engine_vars

\* no two entries of the collection have the same transaction id
OneEntryPerId(entries) ==
    \A i, j \in 1..Len(entries) :
        entries[i].transaction_id = entries[j].transaction_id => i = j

\* files with at most one entry per transaction id
SharedFiles == {f \in StoreFiles : OneEntryPerId(f)}

SharedPairs == {<<"Transport", "Taxi">>, <<"Zdrowie", "Apteka">>}

InitShared ==
    /\ IdleEngine
    /\ overrides_file \in SharedFiles
    /\ overrides = EmptyDict
    /\ stores = [s \in StoreNames |-> ManualOverrides(overrides_file)]
    /\ parsed = <<>>
    /\ all_transactions = <<>>
    /\ filtered_transactions = <<>>
    /\ report = None
    /\ pc = "store"

NextShared ==
    \/ \E s \in StoreNames, id \in StoreIds, pair \in SharedPairs :
          store_add(s, id, pair[1], pair[2], "")
    \/ \E s \in StoreNames, id \in StoreIds : store_remove(s, id)

SpecShared == InitShared /\ [][NextShared]_vars

(***************************************************************************)
(* What the claims about several instances speak of.                       *)
(***************************************************************************)
\* the calls so far that changed the entries of the id in the file
Touches(id) ==
    {k \in 1..Len(hist) :
        /\ hist[k].transaction_id = id
        /\ hist[k].op = "add" \/ (hist[k].op = "remove" /\ hist[k].result)}

\* the last of them
LastTouch(id) == CHOOSE k \in Touches(id) : \A j \in Touches(id) : j <= k

\* C21: an add re-reads the file before writing it, so what another
\* instance wrote in a call completed earlier is still in the file after it:
\* for every id, when the last completed call that changed its entries is an
\* add, whichever instance made it and whoever wrote to the file afterwards,
\* the file has an entry for the id and it carries that add's category and
\* note.
C21_CompletedEditsKept ==
    \A id \in StoreIds :
        (Touches(id) # {} /\ hist[LastTouch(id)].op = "add") =>
            /\ EntriesOf(overrides_file, id) # {}
            /\ \A i \in EntriesOf(overrides_file, id) :
                  /\ overrides_file[i].category_main
                        = hist[LastTouch(id)].category_main
                  /\ overrides_file[i].category_sub
                        = hist[LastTouch(id)].category_sub
                  /\ overrides_file[i].note = hist[LastTouch(id)].note

\* B added an entry that A never loaded, then A added an entry for another
\* id: the file holds both
C21_Witness ==
    /\ Len(hist) = 2
    /\ hist[1].op = "add" /\ hist[1].store = "B"
    /\ hist[2].op = "add" /\ hist[2].store = "A"
    /\ hist[1].transaction_id # hist[2].transaction_id
    /\ hist[1].transaction_id \notin DOMAIN stores["A"].overrides
    /\ EntriesOf(overrides_file, hist[1].transaction_id) # {}
    /\ EntriesOf(overrides_file, hist[2].transaction_id) # {}

(***************************************************************************)
(* What the claims about the summary queries speak of.                     *)
(***************************************************************************)
\* a query was made in this step
QueryStep(op) ==
    /\ Len(hist') = Len(hist) + 1
    /\ hist'[Len(hist')].op = op

\* C22: the summary queries answer a lookup miss with an empty value and
\* leave the report as it is: get_monthly_summary gives {} for a year or a
\* month that is not in the report and the stored month otherwise;
\* get_category_summary gives {} for an absent year or an absent main
\* category; get_top_expenses gives the empty list for an absent year.
C22_QueriesTolerateMisses ==
    [][LET call  == hist'[Len(hist')]
           years == report.years
       IN  /\ QueryStep("get_monthly_summary") =>
                /\ report' = report
                /\ IF OHas(years, call.year)
                      /\ OHas(OGet(years, call.year).months, call.month)
                   THEN call.result
                           = OGet(OGet(years, call.year).months, call.month)
                   ELSE call.result = <<>>
           /\ QueryStep("get_category_summary") =>
                /\ report' = report
                /\ ~OHas(years, call.year) => call.result = <<>>
                /\ (/\ OHas(years, call.year)
                    /\ call.category_main \notin {None, ""}
                    /\ ~OHas(OGet(years, call.year).categories_year,
                             call.category_main))
                      => call.result = <<>>
           /\ QueryStep("get_top_expenses") =>
                /\ report' = report
                /\ (call.year # NoYear /\ ~OHas(years, call.year))
                      => call.result = <<>>
      ]_vars

\* a report with a year in which the main category asked for does not occur,
\* and the empty answer to it
C22_Witness ==
    /\ pc = "summary"
    /\ hist[Len(hist)].op = "get_category_summary"
    /\ OHas(report.years, hist[Len(hist)].year)
    /\ hist[Len(hist)].category_main = "Zdrowie"
    /\ OGet(report.years, hist[Len(hist)].year).categories_year # <<>>
    /\ hist[Len(hist)].result = <<>>

\* C23: the total of a month is its income less its expense, the amounts
\* being magnitudes signed by transaction_type: for every month
\* total = total_income - total_expense, and for every year
\* total_year = total_year_income - total_year_expense.
C23_TotalIsNet ==
    Done =>
        /\ \A i \in 1..Len(MonthRecords(report)) :
              LET month_data == MonthRecords(report)[i]
              IN  month_data.total
                      = month_data.total_income - month_data.total_expense
        /\ \A i \in 1..Len(YearRecords(report)) :
              LET year_data == YearRecords(report)[i]
              IN  year_data.total_year
                      = year_data.total_year_income - year_data.total_year_expense

\* the (category_main, category_sub) pairs of a sequence of flattened cells
PairsOf(flat) == {<<flat[k][1], flat[k][2]>> : k \in 1..Len(flat)}

\* the pairs of a sequence of <<year, month, cat_main, cat_sub, values>>
PairsOfCells(cells) == {<<cells[k][3], cells[k][4]>> : k \in 1..Len(cells)}

\* the cells of the months of a year that belong to the pair
MonthCellsOf(year_data, pair) ==
    SelectSeq(CellsOfYear(0, year_data),
              LAMBDA c : <<c[3], c[4]>> = pair)

\* C24: for every year and every (category_main, category_sub),
\* categories_year[main][sub] has as total and count the sums of the totals
\* and counts of the cells [main][sub] of the year's months, and
\* categories_year has an entry exactly for the pairs that occur in some
\* month of the year.
C24_YearlyCategories ==
    Done =>
        \A i \in 1..Len(YearRecords(report)) :
            LET year_data == YearRecords(report)[i]
                flat      == flatten(year_data.categories_year)
            IN  /\ PairsOf(flat)
                      = PairsOfCells(CellsOfYear(0, year_data))
                /\ \A k, l \in 1..Len(flat) :
                      <<flat[k][1], flat[k][2]>> = <<flat[l][1], flat[l][2]>>
                          => k = l
                /\ \A k \in 1..Len(flat) :
                      LET cells == MonthCellsOf(year_data,
                                                <<flat[k][1], flat[k][2]>>)
                      IN  /\ flat[k][3].total
                                = SumSeq([n \in 1..Len(cells) |-> cells[n][5].total])
                          /\ flat[k][3].count
                                = SumSeq([n \in 1..Len(cells) |-> cells[n][5].count])

\* a year in which one pair has a cell in two months, next to a pair with a
\* cell in one month only
C24_Witness ==
    /\ Done
    /\ \E i \in 1..Len(YearRecords(report)) :
          LET year_data == YearRecords(report)[i]
              flat      == flatten(year_data.categories_year)
          IN  /\ Len(flat) = 2
              /\ \E k \in 1..2 :
                    /\ Len(MonthCellsOf(year_data, <<flat[k][1], flat[k][2]>>)) = 2
                    /\ flat[k][3].count = 2

\* cells without their order and without their transaction lists
NormCells(flat) ==
    {<<flat[k][1], flat[k][2], flat[k][3].total, flat[k][3].count>> :
        k \in 1..Len(flat)}

NormMonth(month_data) ==
    [total         |-> month_data.total,
     total_income  |-> month_data.total_income,
     total_expense |-> month_data.total_expense,
     cells         |-> NormCells(flatten(month_data.categories))]

NormYear(year_data) ==
    [total_year         |-> year_data.total_year,
     total_year_income  |-> year_data.total_year_income,
     total_year_expense |-> year_data.total_year_expense,
     categories_year    |-> NormCells(flatten(year_data.categories_year)),
     months             |-> {<<year_data.months[j][1],
                               NormMonth(year_data.months[j][2])>> :
                                j \in 1..Len(year_data.months)}]

\* the totals and counts of a report, whatever order its cells are in
Norm(r) ==
    [years   |-> {<<r.years[i][1], NormYear(r.years[i][2])>> :
                     i \in 1..Len(r.years)},
     summary |-> r.summary]

Permuted(xs, p) == [i \in 1..Len(xs) |-> xs[p[i]]]

Ascending(keys) == \A i, j \in 1..Len(keys) : i < j => keys[i] < keys[j]

\* C26: the totals and counts of the report do not depend on the order of
\* the input: aggregate of any permutation of the transactions has the same
\* years, months and cells with the same totals, counts, income and expense
\* sums, yearly totals, categories_year and summary, and its years and
\* months are in ascending order.
C26_OrderIndependent ==
    Done =>
        \A p \in Permutations(1..Len(all_transactions)) :
            LET r == aggregate(Permuted(all_transactions, p))
            IN  /\ Norm(r) = Norm(report)
                /\ Ascending(OKeys(r.years))
                /\ \A i \in 1..Len(r.years) :
                      Ascending(OKeys(r.years[i][2].months))

\* three transactions of one year, the later month first and the other two
\* in one month in different cells: another order of the input gives the
\* cells of that month in another order
C26_Witness ==
    /\ Done
    /\ Len(all_transactions) = 3
    /\ Len(report.years) = 1
    /\ all_transactions[1].date.month > all_transactions[2].date.month
    /\ all_transactions[2].date.month = all_transactions[3].date.month
    /\ \E p \in Permutations(1..3) :
          flatten(aggregate(Permuted(all_transactions, p)).years[1][2].months[1][2].categories)
              # flatten(report.years[1][2].months[1][2].categories)

\* the expense transactions of the category in the years a query selects
ExpensesOf(transactions, year, cat_main, cat_sub) ==
    SelectSeq(transactions,
              LAMBDA t : /\ t.transaction_type = "expense"
                         /\ year = NoYear \/ t.date.year = year
                         /\ resolve_category(t) = <<cat_main, cat_sub>>)

\* C27: get_top_expenses returns expense categories: the total and count of
\* every returned entry are the sum and the number of the expense
\* transactions of its "main > sub" category in the selected year (in all
\* years when none is given); income transactions contribute to no entry.
C27_TopCountsExpensesOnly ==
    Queried =>
        LET q   == hist[Len(hist)]
            top == q.result
        IN  \A i \in 1..Len(top) :
                LET expenses == ExpensesOf(all_transactions, q.year,
                                           top[i].category_main,
                                           top[i].category_sub)
                IN  /\ top[i].total = SumSeq(Amounts(expenses))
                    /\ top[i].count = Len(expenses)

\* C28: after any sequence of load and add_rule every regex rule is matched
\* with the pattern compiled from its own 'pattern' field: a compiled
\* pattern stored under index i was compiled from rules[i], and every regex
\* rule whose pattern compiles has one under its index.
C28_PatternsFollowRules ==
    /\ \A idx \in DOMAIN compiled_patterns :
          /\ idx + 1 \in 1..Len(rules)
          /\ Get(rules[idx + 1], "match_type", None) = "regex"
          /\ compiled_patterns[idx]
                = re_compile(rules[idx + 1].pattern,
                             ~Get(rules[idx + 1], "case_sensitive", FALSE))
    /\ \A i \in 1..Len(rules) :
          (/\ Get(rules[i], "match_type", None) = "regex"
           /\ "pattern" \in DOMAIN rules[i]
           /\ RegexValid(rules[i].pattern))
              => (i - 1) \in DOMAIN compiled_patterns

\* C29: starting from a durable collection with at most one entry per
\* transaction id, after any sequence of add and remove calls made one at a
\* time, by one instance or by several, the collection has at most one entry
\* per transaction id.
C29_OneEntryPerIdKept == OneEntryPerId(overrides_file)

\* an id was removed, then added by one instance and added again, with
\* another category, by the other one, in a file that holds another id as
\* well: the id has one entry
C29_Witness ==
    /\ Len(hist) = 3
    /\ hist[1].op = "remove" /\ hist[1].result
    /\ hist[2].op = "add" /\ hist[3].op = "add"
    /\ hist[2].store # hist[3].store
    /\ hist[1].transaction_id = hist[2].transaction_id
    /\ hist[2].transaction_id = hist[3].transaction_id
    /\ hist[2].category_main # hist[3].category_main
    /\ Len(overrides_file) = 2
    /\ Cardinality(EntriesOf(overrides_file, hist[3].transaction_id)) = 1

\* C30: the summary of every report is consistent: total_transactions is
\* the number of input transactions, total_uncategorized is the length of
\* report.uncategorized, total_categorized + total_uncategorized
\* = total_transactions, and none of the three is negative.
C30_SummaryConsistent ==
    Done =>
        /\ report.summary.total_transactions = Len(all_transactions)
        /\ report.summary.total_uncategorized = Len(report.uncategorized)
        /\ report.summary.total_categorized + report.summary.total_uncategorized
              = report.summary.total_transactions
        /\ report.summary.total_transactions >= 0
        /\ report.summary.total_categorized >= 0
        /\ report.summary.total_uncategorized >= 0

\* a report of three transactions, one of them in the uncategorized list
C30_Witness ==
    /\ Done
    /\ Len(all_transactions) = 3
    /\ Len(report.uncategorized) = 1
    /\ report.summary.total_categorized = 2

(***************************************************************************)
(* add and remove step by step, for instances that run at the same time.   *)
(* A call reads the file, changes what it read and writes it back with     *)
(* open(file, 'w') and yaml.dump: the open empties the file, and the dump,  *)
(* flushed when the file is closed, writes at the head of the file,         *)
(* whatever another instance has written there in between.  The file is    *)
(* the block-style YAML that yaml.dump(default_flow_style=False) gives:     *)
(* "overrides:", then for each entry its keys, one "key: value" line each.  *)
(***************************************************************************)
MaxRaceCalls == 2       \* calls begun on the instances together

\* bytes of the line "- key: value" or "  key: value" of a dumped entry; an
\* empty string and a date are written in quotes
line_bytes(key, value) ==
    Len(key) + Len(value) + 5
        + (IF value = "" \/ key \in {"date_added", "date_updated"} THEN 2 ELSE 0)

RECURSIVE lines_bytes(_, _)
lines_bytes(entry, keys) ==
    IF keys = {} THEN 0
    ELSE LET key == CHOOSE k \in keys : TRUE
         IN  line_bytes(key, entry[key]) + lines_bytes(entry, keys \ {key})

\* bytes of a dumped entry
entry_bytes(entry) == lines_bytes(entry, DOMAIN entry)

\* bytes of the dump of the first n entries, after the line "overrides:"
head_bytes(entries, n) ==
    11 + SumSeq([i \in 1..n |-> entry_bytes(entries[i])])

\* bytes of the dumped file; an empty list is dumped as "overrides: []"
file_bytes(entries) ==
    IF entries = <<>> THEN 14 ELSE head_bytes(entries, Len(entries))

\* a file in which the bytes of two dumps are mixed inside an entry; what it
\* parses to, if it parses, depends on the bytes: no call reads it
MixedBytes == <<[transaction_id |-> None, mixed |-> "bytes"]>>

\* yaml.safe_load of the file succeeds
parses(file) == \A i \in 1..Len(file) : "mixed" \notin DOMAIN file[i]

\* the file after data is dumped at its head while it holds current: data
\* when it covers current; data followed by the entries of current that
\* begin where data ends, when an entry begins there
dump_over(data, current) ==
    IF file_bytes(data) >= file_bytes(current) THEN data
    ELSE LET cut == {k \in 1..Len(current) :
                        head_bytes(current, k) = file_bytes(data)}
         IN  IF data # <<>> /\ cut # {}
             THEN data \o SubSeq(current, (CHOOSE k \in cut : TRUE) + 1,
                                 Len(current))
             ELSE MixedBytes

race_frame == <<rules_file, overrides, parsed, all_transactions,
                filtered_transactions, report, pc>>

\* add on instance s up to the change of the data it read (lines 102-149);
\* a file that does not parse ends the call in `except`
add_read(s, transaction_id, category_main, category_sub, note) ==
    /\ Len(hist) < MaxRaceCalls
    /\ stores[s].at = "idle"
    /\ stores' = [stores EXCEPT ![s] =
          [overrides |-> DictPut(stores[s].overrides, transaction_id,
                                 <<category_main, category_sub>>),
           at        |-> IF parses(overrides_file) THEN "read" ELSE "idle",
           data      |-> IF parses(overrides_file)
                         THEN save(read_data(overrides_file), transaction_id,
                                   category_main, category_sub, note)
                         ELSE <<>>]]
    /\ hist' = Append(hist, [op |-> "add", store |-> s,
                             transaction_id |-> transaction_id,
                             category_main |-> category_main,
                             category_sub |-> category_sub, note |-> note,
                             result |-> None])
    /\ UNCHANGED overrides_file
    /\ UNCHANGED race_frame
    /\ UNCHANGED engine_vars

\* remove on instance s up to the filtering of the data it read (lines
\* 172-193); it returns at once for an id that is not in memory
remove_read(s, transaction_id) ==
    /\ Len(hist) < MaxRaceCalls
    /\ stores[s].at = "idle"
    /\ IF transaction_id \notin DOMAIN stores[s].overrides
       THEN UNCHANGED stores
       ELSE stores' = [stores EXCEPT ![s] =
               [overrides |-> [k \in DOMAIN stores[s].overrides
                                        \ {transaction_id} |->
                                  stores[s].overrides[k]],
                at        |-> IF parses(overrides_file) THEN "read" ELSE "idle",
                data      |-> IF parses(overrides_file)
                              THEN remove_from_file(read_data(overrides_file),
                                                    transaction_id)
                              ELSE <<>>]]
    /\ hist' = Append(hist, [op |-> "remove", store |-> s,
                             transaction_id |-> transaction_id,
                             result |-> transaction_id
                                           \in DOMAIN stores[s].overrides])
    /\ UNCHANGED overrides_file
    /\ UNCHANGED race_frame
    /\ UNCHANGED engine_vars

\* open(self.overrides_file, 'w'): the file is emptied
open_for_write(s) ==
    /\ stores[s].at = "read"
    /\ stores' = [stores EXCEPT ![s].at = "open"]
    /\ overrides_file' = <<>>
    /\ UNCHANGED hist
    /\ UNCHANGED race_frame
    /\ UNCHANGED engine_vars

\* yaml.dump(data, f) and the end of the `with` block
dump(s) ==
    /\ stores[s].at = "open"
    /\ overrides_file' = dump_over(stores[s].data, overrides_file)
    /\ stores' = [stores EXCEPT ![s].at = "idle", ![s].data = <<>>]
    /\ UNCHANGED hist
    /\ UNCHANGED race_frame
    /\ UNCHANGED engine_vars

\* files written by earlier adds, with entries of equal length
RaceFiles ==
    {save(<<>>, "id1", "Transport", "Taxi", ""),
     save(save(<<>>, "id1", "Transport", "Taxi", ""),
          "id2", "Zdrowie", "Apteka", "")}

RaceIds == {"id1", "id2", "id3"}

InitRace ==
    /\ IdleEngine
    /\ overrides_file \in RaceFiles
    /\ overrides = EmptyDict
    /\ stores = [s \in StoreNames |-> ManualOverrides(overrides_file)]
    /\ parsed = <<>>
    /\ all_transactions = <<>>
    /\ filtered_transactions = <<>>
    /\ report = None
    /\ pc = "store"

NextRace ==
    \/ \E s \in StoreNames, id \in RaceIds, pair \in SharedPairs :
          add_read(s, id, pair[1], pair[2], "")
    \/ \E s \in StoreNames, id \in RaceIds : remove_read(s, id)
    \/ \E s \in StoreNames : open_for_write(s)
    \/ \E s \in StoreNames : dump(s)

SpecRace == InitRace /\ [][NextRace]_vars

\* instance s ends its write in this step
DumpStep(s) == stores[s].at = "open" /\ stores'[s].at = "idle"

\* C25: persistence is an unlocked read-modify-write in which the last
\* writer wins: however the steps of two instances' calls interleave, the
\* file after a write is what that writer wrote, and the file never has two
\* entries for one transaction id.
C25_LastWriterWins ==
    [][/\ \A s \in StoreNames :
             DumpStep(s) => overrides_file' = stores[s].data
       /\ OneEntryPerId(overrides_file')
      ]_vars

====
